---- MODULE Spec2Model ----
(***************************************************************************)
(* Model of n8n-nodes-gedcom: identifier canonicalization, the             *)
(* generation-bounded ancestor / descendant traversal (GedcomAncestry),    *)
(* the dual-strategy parse orchestrator (GedcomParser) with the name       *)
(* parser, the generator, the finder, and the node's async execute.        *)
(*                                                                         *)
(* Strings are sequences of one-character strings, so that startsWith,     *)
(* endsWith and concatenation are computed as the code computes them.      *)
(* The JavaScript value undefined is the one-element sequence Undef,       *)
(* whose element is not a character.                                       *)
(***************************************************************************)
EXTENDS Integers, Sequences, FiniteSets, TLC

VARIABLES pr, call, out, calls, visitedPersons, frames

vars == <<pr, call, out, calls, visitedPersons, frames>>

-----------------------------------------------------------------------------
(* Bounds *)

\* longest raw identifier handed to canonicalizeId in SpecCanon
MaxLen == 4

\* largest maxGenerations argument of a traversal call
MaxGen == 3

\* most top-level records of a tree parseGedcom returns in SpecParse
MaxRecords == 2

\* longest buffer handed to the encoding detector in SpecDecode
MaxBytes == 5

\* most input items of the calls of execute in one behaviour of SpecNode
MaxItems == 2

\* calls of execute in one behaviour
MaxCalls == 2

\* changes other code makes to the input of one call while it waits
MaxCallbacks == 1

-----------------------------------------------------------------------------
(* Values *)

Undef == <<"undefined">>

\* JavaScript truthiness of a string-or-undefined value
Truthy(v) == v # Undef /\ v # <<>>

Chars == {"@", "I", "5"}

RECURSIVE StrsOfLen(_)
StrsOfLen(n) ==
    IF n = 0 THEN {<<>>}
    ELSE {<<c>> \o s : c \in Chars, s \in StrsOfLen(n - 1)}

Strs == UNION {StrsOfLen(n) : n \in 0..MaxLen}

startsWith(s, c) == Len(s) > 0 /\ s[1] = c

endsWith(s, c) == Len(s) > 0 /\ s[Len(s)] = c

Max(S) == CHOOSE m \in S : \A n \in S : n <= m

Min(S) == CHOOSE m \in S : \A n \in S : m <= n

Contains(seq, v) == \E i \in DOMAIN seq : seq[i] = v

NoDuplicates(seq) == \A i, j \in DOMAIN seq : i # j => seq[i] # seq[j]

-----------------------------------------------------------------------------
(* Canonicalization: one copy in GedcomAncestry, one in GedcomParser *)

AncestryCanonicalizeIdNoWrap(id) == id

AncestryCanonicalizeId(id) ==
    IF ~Truthy(id) THEN <<>>
    ELSE IF startsWith(id, "@") /\ endsWith(id, "@") THEN id
    ELSE <<"@">> \o id \o <<"@">>

ParserCanonicalizeIdPrefixOnly(id) ==
    IF ~Truthy(id) THEN <<>>
    ELSE IF startsWith(id, "@") THEN id
    ELSE <<"@">> \o id \o <<"@">>

ParserCanonicalizeId(id) ==
    IF ~Truthy(id) THEN <<>>
    ELSE IF startsWith(id, "@") /\ endsWith(id, "@") THEN id
    ELSE <<"@">> \o id \o <<"@">>

-----------------------------------------------------------------------------
(* Canonical model: ParsedPerson, ParsedFamily, ParseResult *)

\* a person as both normalizers first build it: birthDate and deathDate are
\* '', firstName and lastName are not set (Undef, as when set to undefined)
ParsedPerson(id, name, famc, fams) ==
    [id |-> id, name |-> name, firstName |-> Undef, lastName |-> Undef,
     birthDate |-> <<>>, deathDate |-> <<>>, famc |-> famc, fams |-> fams]

ParsedFamily(id, husband, wife, children) ==
    [id |-> id, husband |-> husband, wife |-> wife, children |-> children]

ParseResult(persons, families, encodingTag) ==
    [meta |-> [individuals |-> Len(persons), families |-> Len(families),
               encodingTag |-> encodingTag],
     persons |-> persons,
     families |-> families]

\* new Map filled by set(x.id, x) in list order: a later record replaces an
\* earlier one with the same id
MapHas(list, id) == \E i \in DOMAIN list : list[i].id = id

MapGet(list, id) == list[Max({i \in DOMAIN list : list[i].id = id})]

-----------------------------------------------------------------------------
(* Traversal engine *)

RootNotFound(rootId) ==
    [kind |-> "error",
     message |-> <<"Root person with ID '", rootId, "' not found in GEDCOM data">>]

\* An array object is named by the expression that allocates it and the
\* iteration that evaluates it; the arrays of the argument are named by
\* where they hang in it.
ArrayRef(site, index) == [site |-> site, index |-> index]

SeedRootNotVisited(canonicalRootId) ==
    [gen |-> 0,
     currentGeneration |-> <<canonicalRootId>>,
     currentRef |-> ArrayRef("[canonicalRootId]", 0),
     generations |-> <<>>,
     generationRefs |-> <<>>,
     visitedPersons |-> <<>>,
     edges |-> <<>>]

Seed(canonicalRootId) ==
    [gen |-> 0,
     currentGeneration |-> <<canonicalRootId>>,
     currentRef |-> ArrayRef("[canonicalRootId]", 0),
     generations |-> <<>>,
     generationRefs |-> <<>>,
     visitedPersons |-> <<canonicalRootId>>,
     edges |-> <<>>]

BeginGeneration(s) ==
    [nextGeneration |-> <<>>,
     visitedPersons |-> s.visitedPersons,
     edges |-> s.edges]

\* generations.push([...currentGeneration]) pushes a new array
SpreadCopy(s) == ArrayRef("[...currentGeneration]", s.gen)

EndGeneration(s, acc) ==
    [gen |-> s.gen + 1,
     currentGeneration |-> acc.nextGeneration,
     currentRef |-> ArrayRef("nextGeneration", s.gen),
     generations |-> Append(s.generations, s.currentGeneration),
     generationRefs |-> Append(s.generationRefs, SpreadCopy(s)),
     visitedPersons |-> acc.visitedPersons,
     edges |-> acc.edges]

\* Set.add keeps insertion order and ignores a member it already has
SetAdd(set, v) == IF Contains(set, v) THEN set ELSE Append(set, v)

Discover(acc, id, parent, child, relation) ==
    [nextGeneration |-> Append(acc.nextGeneration, id),
     visitedPersons |-> SetAdd(acc.visitedPersons, id),
     edges |-> Append(acc.edges,
                      [parent |-> parent, child |-> child, relation |-> relation])]

\* gedcom-ancestry.ts 42-60: husband first, then wife
VisitParentAlways(acc, parentId, personId, relation) ==
    IF Truthy(parentId)
    THEN Discover(acc, parentId, parentId, personId, relation)
    ELSE acc

VisitParent(acc, parentId, personId, relation) ==
    IF Truthy(parentId) /\ ~Contains(acc.visitedPersons, parentId)
    THEN Discover(acc, parentId, parentId, personId, relation)
    ELSE acc

AncestorsFamilyHusbandOnly(acc, family, personId) ==
    VisitParent(acc, family.husband, personId, "father")

AncestorsFamilyWifeFirst(acc, family, personId) ==
    VisitParent(VisitParent(acc, family.wife, personId, "mother"),
                family.husband, personId, "father")

AncestorsFamily(acc, family, personId) ==
    VisitParent(VisitParent(acc, family.husband, personId, "father"),
                family.wife, personId, "mother")

RECURSIVE AncestorsFamc(_, _, _, _, _)
AncestorsFamc(parseResult, acc, personId, famc, k) ==
    IF k > Len(famc) THEN acc
    ELSE IF ~MapHas(parseResult.families, famc[k])
         THEN AncestorsFamc(parseResult, acc, personId, famc, k + 1)
         ELSE AncestorsFamc(parseResult,
                  AncestorsFamily(acc, MapGet(parseResult.families, famc[k]), personId),
                  personId, famc, k + 1)

RECURSIVE AncestorsPersons(_, _, _, _)
AncestorsPersons(parseResult, acc, currentGeneration, k) ==
    IF k > Len(currentGeneration) THEN acc
    ELSE IF ~MapHas(parseResult.persons, currentGeneration[k])
         THEN AncestorsPersons(parseResult, acc, currentGeneration, k + 1)
         ELSE AncestorsPersons(parseResult,
                  AncestorsFamc(parseResult, acc, currentGeneration[k],
                      MapGet(parseResult.persons, currentGeneration[k]).famc, 1),
                  currentGeneration, k + 1)

VisitChildAlways(acc, person, family, childId) ==
    Discover(acc, childId, person.id, childId,
             IF person.id = family.husband THEN "father" ELSE "mother")

VisitChildFatherUnlessWife(acc, person, family, childId) ==
    IF ~Contains(acc.visitedPersons, childId)
    THEN Discover(acc, childId, person.id, childId,
                  IF person.id = family.wife THEN "mother" ELSE "father")
    ELSE acc

\* gedcom-ancestry.ts 116-127
VisitChild(acc, person, family, childId) ==
    IF ~Contains(acc.visitedPersons, childId)
    THEN Discover(acc, childId, person.id, childId,
                  IF person.id = family.husband THEN "father" ELSE "mother")
    ELSE acc

RECURSIVE DescendantsChildren(_, _, _, _)
DescendantsChildren(acc, person, family, k) ==
    IF k > Len(family.children) THEN acc
    ELSE DescendantsChildren(VisitChild(acc, person, family, family.children[k]),
                             person, family, k + 1)

RECURSIVE DescendantsFams(_, _, _, _)
DescendantsFams(parseResult, acc, person, k) ==
    IF k > Len(person.fams) THEN acc
    ELSE IF ~MapHas(parseResult.families, person.fams[k])
         THEN DescendantsFams(parseResult, acc, person, k + 1)
         ELSE DescendantsFams(parseResult,
                  DescendantsChildren(acc, person,
                      MapGet(parseResult.families, person.fams[k]), 1),
                  person, k + 1)

RECURSIVE DescendantsPersons(_, _, _, _)
DescendantsPersons(parseResult, acc, currentGeneration, k) ==
    IF k > Len(currentGeneration) THEN acc
    ELSE IF ~MapHas(parseResult.persons, currentGeneration[k])
         THEN DescendantsPersons(parseResult, acc, currentGeneration, k + 1)
         ELSE DescendantsPersons(parseResult,
                  DescendantsFams(parseResult, acc,
                      MapGet(parseResult.persons, currentGeneration[k]), 1),
                  currentGeneration, k + 1)

\* the loop condition of both traversals
LoopContinuesPadding(s, maxGenerations) == s.gen < maxGenerations

LoopContinuesWhileDiscovering(s, maxGenerations) ==
    Len(s.currentGeneration) > 0

LoopContinues(s, maxGenerations) ==
    s.gen < maxGenerations /\ Len(s.currentGeneration) > 0

RECURSIVE AncestorsLoop(_, _, _)
AncestorsLoop(parseResult, maxGenerations, s) ==
    IF LoopContinues(s, maxGenerations)
    THEN AncestorsLoop(parseResult, maxGenerations,
             EndGeneration(s, AncestorsPersons(parseResult, BeginGeneration(s),
                                               s.currentGeneration, 1)))
    ELSE s

RECURSIVE DescendantsLoop(_, _, _)
DescendantsLoop(parseResult, maxGenerations, s) ==
    IF LoopContinues(s, maxGenerations)
    THEN DescendantsLoop(parseResult, maxGenerations,
             EndGeneration(s, DescendantsPersons(parseResult, BeginGeneration(s),
                                                 s.currentGeneration, 1)))
    ELSE s

\* Array.from(visitedPersons).map(id => personMap.get(id)).filter(defined)
RECURSIVE Nodes(_, _, _)
Nodes(parseResult, visited, k) ==
    IF k > Len(visited) THEN <<>>
    ELSE IF MapHas(parseResult.persons, visited[k])
         THEN <<MapGet(parseResult.persons, visited[k])>>
              \o Nodes(parseResult, visited, k + 1)
         ELSE Nodes(parseResult, visited, k + 1)

AncestryResult(parseResult, canonicalRootId, s) ==
    [kind |-> "ok",
     value |-> [root |-> canonicalRootId,
                generations |-> s.generations,
                nodes |-> Nodes(parseResult, s.visitedPersons, 1),
                edges |-> s.edges],
     visitedPersons |-> s.visitedPersons,
     iterations |-> s.gen,
     generationRefs |-> s.generationRefs]

\* Neither traversal assigns to parseResult, to a Person or Family of it, or
\* to one of their lists: the loops at 11-17 and 85-91 fill the maps by
\* reading.  This is the argument as the call leaves it.
AfterCallMapsDrained(parseResult) ==
    [parseResult EXCEPT !.persons = <<>>, !.families = <<>>]

AfterCall(parseResult) == parseResult

RootMessageCanonical(rootId) == AncestryCanonicalizeId(rootId)

RootMessageId(rootId) == rootId

computeAncestors(parseResult, rootId, maxGenerations) ==
    LET canonicalRootId == AncestryCanonicalizeId(rootId) IN
    IF ~MapHas(parseResult.persons, canonicalRootId)
    THEN RootNotFound(RootMessageId(rootId))
    ELSE AncestryResult(parseResult, canonicalRootId,
             AncestorsLoop(parseResult, maxGenerations, Seed(canonicalRootId)))

computeDescendants(parseResult, rootId, maxGenerations) ==
    LET canonicalRootId == AncestryCanonicalizeId(rootId) IN
    IF ~MapHas(parseResult.persons, canonicalRootId)
    THEN RootNotFound(RootMessageId(rootId))
    ELSE AncestryResult(parseResult, canonicalRootId,
             DescendantsLoop(parseResult, maxGenerations, Seed(canonicalRootId)))

Traverse(op, parseResult, rootId, maxGenerations) ==
    IF op = "computeAncestors"
    THEN computeAncestors(parseResult, rootId, maxGenerations)
    ELSE computeDescendants(parseResult, rootId, maxGenerations)

-----------------------------------------------------------------------------
(* Encoding detector.  A buffer is a sequence of bytes, a decoded text a    *)
(* sequence of UTF-16 code units.                                           *)

ReplacementChar == 65533

IsContinuation(b) == b >= 128 /\ b <= 191

\* the second byte a UTF-8 lead byte accepts
SecondByteOk(lead, b) ==
    IF lead = 224 THEN b >= 160 /\ b <= 191
    ELSE IF lead = 237 THEN b >= 128 /\ b <= 159
    ELSE IF lead = 240 THEN b >= 144 /\ b <= 191
    ELSE IF lead = 244 THEN b >= 128 /\ b <= 143
    ELSE IsContinuation(b)

Surrogates(cp) ==
    <<55296 + ((cp - 65536) \div 1024), 56320 + ((cp - 65536) % 1024)>>

\* Buffer.toString('utf8'): an ill-formed sequence decodes to one U+FFFD per
\* maximal subpart; a byte-order mark inside the text is kept
RECURSIVE Utf8Decode(_)
Utf8Decode(bytes) ==
    IF bytes = <<>> THEN <<>>
    ELSE
    LET n == Len(bytes)
        b == bytes[1]
        from(k) == Utf8Decode(SubSeq(bytes, k, n))
        bad(k) == <<ReplacementChar>> \o from(k)
    IN  IF b < 128 THEN <<b>> \o from(2)
        ELSE IF b >= 194 /\ b <= 223 THEN
            IF n >= 2 /\ IsContinuation(bytes[2])
            THEN <<(b % 32) * 64 + (bytes[2] % 64)>> \o from(3)
            ELSE bad(2)
        ELSE IF b >= 224 /\ b <= 239 THEN
            IF ~(n >= 2 /\ SecondByteOk(b, bytes[2])) THEN bad(2)
            ELSE IF ~(n >= 3 /\ IsContinuation(bytes[3])) THEN bad(3)
            ELSE <<(b % 16) * 4096 + (bytes[2] % 64) * 64 + (bytes[3] % 64)>> \o from(4)
        ELSE IF b >= 240 /\ b <= 244 THEN
            IF ~(n >= 2 /\ SecondByteOk(b, bytes[2])) THEN bad(2)
            ELSE IF ~(n >= 3 /\ IsContinuation(bytes[3])) THEN bad(3)
            ELSE IF ~(n >= 4 /\ IsContinuation(bytes[4])) THEN bad(4)
            ELSE Surrogates((b % 8) * 262144 + (bytes[2] % 64) * 4096
                            + (bytes[3] % 64) * 64 + (bytes[4] % 64)) \o from(5)
        ELSE bad(2)

\* Buffer.toString('utf16le'): low byte first, a trailing odd byte is dropped
RECURSIVE Utf16leDecode(_)
Utf16leDecode(bytes) ==
    IF Len(bytes) < 2 THEN <<>>
    ELSE <<bytes[1] + 256 * bytes[2]>> \o Utf16leDecode(SubSeq(bytes, 3, Len(bytes)))

slice(buffer, start) == SubSeq(buffer, start + 1, Len(buffer))

detectAndDecodeGedcomLittleEndianMarkOnly(buffer) ==
    IF Len(buffer) >= 3 /\ buffer[1] = 239 /\ buffer[2] = 187 /\ buffer[3] = 191
    THEN Utf8Decode(slice(buffer, 3))
    ELSE IF Len(buffer) >= 2 /\ buffer[1] = 255 /\ buffer[2] = 254
    THEN Utf16leDecode(slice(buffer, 2))
    ELSE Utf8Decode(buffer)

detectAndDecodeGedcom(buffer) ==
    IF Len(buffer) >= 3 /\ buffer[1] = 239 /\ buffer[2] = 187 /\ buffer[3] = 191
    THEN Utf8Decode(slice(buffer, 3))
    ELSE IF Len(buffer) >= 2 /\ buffer[1] = 255 /\ buffer[2] = 254
    THEN Utf16leDecode(slice(buffer, 2))
    ELSE IF Len(buffer) >= 2 /\ buffer[1] = 254 /\ buffer[2] = 255
    THEN Utf16leDecode(slice(buffer, 2))
    ELSE Utf8Decode(buffer)

-----------------------------------------------------------------------------
(* Exceptions and values of the untyped trees the two libraries return *)

\* null, where an object is expected
Null == [isNull |-> TRUE]

Ok(v) == [kind |-> "ok", value |-> v]

\* a throw abandons the lists the throwing function had built so far
Throw(message, acc) ==
    [kind |-> "throw", message |-> message,
     persons |-> acc.persons, families |-> acc.families]

NoLists == [persons |-> <<>>, families |-> <<>>]

ReadNull(property) ==
    <<"Cannot read properties of null (reading '", property, "')">>

\* a node of the parse-gedcom tree; data.xref_id and data.pointer are Undef
\* when data or the attribute is absent; a node without children has the
\* empty list, which every loop and find over it treats alike
Node(type, xref_id, pointer, value, children) ==
    [type |-> type, xref_id |-> xref_id, pointer |-> pointer,
     value |-> value, children |-> children]

-----------------------------------------------------------------------------
(* GedcomNameParser: a GEDCOM name such as "John /Doe/" split into its parts *)

\* String.prototype.trim; the white space of the inputs is the space
RECURSIVE trimStart(_)
trimStart(s) ==
    IF s # <<>> /\ Head(s) = " " THEN trimStart(Tail(s)) ELSE s

RECURSIVE trimEnd(_)
trimEnd(s) ==
    IF s # <<>> /\ s[Len(s)] = " "
    THEN trimEnd(SubSeq(s, 1, Len(s) - 1)) ELSE s

trim(s) == trimEnd(trimStart(s))

\* the least of the positions, 0 when there is none
First(positions) == IF positions = {} THEN 0 ELSE Min(positions)

\* the position of the first '/' after position i, 0 when there is none
NextSlash(s, i) == First({j \in DOMAIN s : j > i /\ s[j] = "/"})

\* nameValue.match(/\/([^\/]+)\//): the position of the '/' that opens the
\* leftmost match, 0 when nothing matches; NextSlash closes it
LastNameMatch(s) ==
    First({i \in DOMAIN s : s[i] = "/" /\ NextSlash(s, i) >= i + 2})

\* [beforeLastName, afterLastName].filter(part => part).join(' ')
JoinParts(before, after) ==
    IF before # <<>> /\ after # <<>> THEN before \o <<" ">> \o after
    ELSE before \o after

\* firstName after the match, or for want of one
FirstName(nameValue, open) ==
    IF open = 0 THEN trim(nameValue)
    ELSE JoinParts(trim(SubSeq(nameValue, 1, open - 1)),
                   trim(SubSeq(nameValue, NextSlash(nameValue, open) + 1,
                               Len(nameValue))))

\* lastName after the match, or for want of one
LastName(nameValue, open) ==
    IF open = 0 THEN <<>>
    ELSE trim(SubSeq(nameValue, open + 1, NextSlash(nameValue, open) - 1))

FullName(firstName, lastName) ==
    IF firstName # <<>> /\ lastName # <<>> THEN firstName \o <<" ">> \o lastName
    ELSE firstName \o lastName

\* x || undefined
OrUndefined(x) == IF Truthy(x) THEN x ELSE Undef

\* the return value of parseName for a truthy nameValue
ParsedName(nameValue, firstName, lastName) ==
    [fullName |-> IF FullName(firstName, lastName) # <<>>
                  THEN FullName(firstName, lastName) ELSE nameValue,
     firstName |-> OrUndefined(firstName),
     lastName |-> OrUndefined(lastName)]

parseName(nameValue) ==
    IF ~Truthy(nameValue)
    THEN [fullName |-> <<>>, firstName |-> Undef, lastName |-> Undef]
    ELSE ParsedName(nameValue,
                    FirstName(nameValue, LastNameMatch(nameValue)),
                    LastName(nameValue, LastNameMatch(nameValue)))

\* person.name = parsedName.fullName, and the two parts
WithName(person, parsedName) ==
    [person EXCEPT !.name = parsedName.fullName,
                   !.firstName = parsedName.firstName,
                   !.lastName = parsedName.lastName]

\* x || ''
OrEmpty(x) == IF Truthy(x) THEN x ELSE <<>>

-----------------------------------------------------------------------------
(* Primary record-tree normalizer *)

\* Array.prototype.find(record => record.type === type): the index found,
\* 0 when none, -1 when the callback throws on a null element first
RECURSIVE FindType(_, _, _)
FindType(list, type, k) ==
    IF k > Len(list) THEN 0
    ELSE IF list[k] = Null THEN -1
    ELSE IF list[k].type = type THEN k
    ELSE FindType(list, type, k + 1)

\* if (dateRecord) date = dateRecord.value || '', d being where find found
\* the DATE record of the event, 0 when it found none
DateUnder(event, d, date) ==
    IF d = 0 THEN date ELSE OrEmpty(event.children[d].value)

RECURSIVE IndividualChildren(_, _, _)
IndividualChildren(person, children, k) ==
    IF k > Len(children) THEN Ok(person)
    ELSE LET child == children[k] IN
         IF child = Null THEN Throw(ReadNull("type"), NoLists)
         ELSE IF child.type = "NAME"
         THEN IndividualChildren(WithName(person, parseName(OrEmpty(child.value))),
                                 children, k + 1)
         ELSE IF child.type \in {"BIRT", "DEAT"}
                 /\ FindType(child.children, "DATE", 1) = -1
         THEN Throw(ReadNull("type"), NoLists)
         ELSE IF child.type = "BIRT"
         THEN IndividualChildren(
                  [person EXCEPT !.birthDate =
                      DateUnder(child, FindType(child.children, "DATE", 1), @)],
                  children, k + 1)
         ELSE IF child.type = "DEAT"
         THEN IndividualChildren(
                  [person EXCEPT !.deathDate =
                      DateUnder(child, FindType(child.children, "DATE", 1), @)],
                  children, k + 1)
         ELSE IF child.type = "FAMC" /\ Truthy(child.pointer)
         THEN IndividualChildren([person EXCEPT !.famc = Append(@, child.pointer)],
                                 children, k + 1)
         ELSE IF child.type = "FAMS" /\ Truthy(child.pointer)
         THEN IndividualChildren([person EXCEPT !.fams = Append(@, child.pointer)],
                                 children, k + 1)
         ELSE IndividualChildren(person, children, k + 1)

parseIndividual(record) ==
    IndividualChildren(ParsedPerson(record.xref_id, <<>>, <<>>, <<>>),
                       record.children, 1)

ChilValueNeverPushed(family, child) ==
    IF Truthy(child.pointer)
    THEN [family EXCEPT !.children = Append(@, child.pointer)]
    ELSE family

\* case 'CHIL' of parseFamily
Chil(family, child) ==
    IF Truthy(child.pointer)
    THEN [family EXCEPT !.children = Append(@, child.pointer)]
    ELSE IF Truthy(child.value)
    THEN [family EXCEPT !.children = Append(@, child.value)]
    ELSE family

\* child.data && child.data.pointer ? child.data.pointer : child.value
PointerOrValue(child) == IF Truthy(child.pointer) THEN child.pointer ELSE child.value

RECURSIVE FamilyChildren(_, _, _)
FamilyChildren(family, children, k) ==
    IF k > Len(children) THEN Ok(family)
    ELSE LET child == children[k] IN
         IF child = Null THEN Throw(ReadNull("type"), NoLists)
         ELSE IF child.type = "HUSB"
         THEN FamilyChildren([family EXCEPT !.husband = PointerOrValue(child)],
                             children, k + 1)
         ELSE IF child.type = "WIFE"
         THEN FamilyChildren([family EXCEPT !.wife = PointerOrValue(child)],
                             children, k + 1)
         ELSE IF child.type = "CHIL"
         THEN FamilyChildren(Chil(family, child), children, k + 1)
         ELSE FamilyChildren(family, children, k + 1)

parseFamily(record) ==
    FamilyChildren(ParsedFamily(record.xref_id, Undef, Undef, <<>>),
                   record.children, 1)

\* the encoding tag after the HEAD / CHAR lookup, or a throw
HeadEncodingTag(tree, encodingTag) ==
    LET h == FindType(tree.children, "HEAD", 1) IN
    IF h = -1 THEN Throw(ReadNull("type"), NoLists)
    ELSE IF h = 0 THEN Ok(encodingTag)
    ELSE LET c == FindType(tree.children[h].children, "CHAR", 1) IN
         IF c = -1 THEN Throw(ReadNull("type"), NoLists)
         ELSE IF c > 0 /\ Truthy(tree.children[h].children[c].value)
         THEN Ok(tree.children[h].children[c].value)
         ELSE Ok(encodingTag)

RECURSIVE RecordsNewestFirst(_, _, _)
RecordsNewestFirst(acc, records, k) ==
    IF k > Len(records) THEN Ok(acc)
    ELSE LET record == records[k] IN
         IF record = Null THEN Throw(ReadNull("type"), acc)
         ELSE IF record.type = "INDI" /\ Truthy(record.xref_id)
         THEN LET person == parseIndividual(record) IN
              IF person.kind = "throw" THEN Throw(person.message, acc)
              ELSE RecordsNewestFirst([acc EXCEPT !.persons = <<person.value>> \o @],
                                      records, k + 1)
         ELSE IF record.type = "FAM" /\ Truthy(record.xref_id)
         THEN LET family == parseFamily(record) IN
              IF family.kind = "throw" THEN Throw(family.message, acc)
              ELSE RecordsNewestFirst([acc EXCEPT !.families = <<family.value>> \o @],
                                      records, k + 1)
         ELSE RecordsNewestFirst(acc, records, k + 1)

\* for (const record of tree.children)
RECURSIVE Records(_, _, _)
Records(acc, records, k) ==
    IF k > Len(records) THEN Ok(acc)
    ELSE LET record == records[k] IN
         IF record = Null THEN Throw(ReadNull("type"), acc)
         ELSE IF record.type = "INDI" /\ Truthy(record.xref_id)
         THEN LET person == parseIndividual(record) IN
              IF person.kind = "throw" THEN Throw(person.message, acc)
              ELSE Records([acc EXCEPT !.persons = Append(@, person.value)],
                           records, k + 1)
         ELSE IF record.type = "FAM" /\ Truthy(record.xref_id)
         THEN LET family == parseFamily(record) IN
              IF family.kind = "throw" THEN Throw(family.message, acc)
              ELSE Records([acc EXCEPT !.families = Append(@, family.value)],
                           records, k + 1)
         ELSE Records(acc, records, k + 1)

\* what parseGedcom can hand back: null, an object without children, an
\* object whose children is not an array, or a root with a list of records
Tree(children) == [shape |-> "root", children |-> children]

MalformedTrees ==
    {[shape |-> "null"], [shape |-> "no children"], [shape |-> "children not an array"]}

CountOfType(records, type) ==
    Cardinality({k \in DOMAIN records : records[k] # Null /\ records[k].type = type})

PrimaryMetaFromRecords(tree, acc, encodingTag) ==
    [individuals |-> CountOfType(tree.children, "INDI"),
     families |-> CountOfType(tree.children, "FAM"),
     encodingTag |-> encodingTag]

\* the meta of the primary normalizer's return value
PrimaryMeta(tree, acc, encodingTag) ==
    [individuals |-> Len(acc.persons),
     families |-> Len(acc.families),
     encodingTag |-> encodingTag]

normalizeParseGedcomResult(tree, encodingTag) ==
    IF tree.shape # "root"
    THEN Throw(<<"Invalid GEDCOM structure">>, NoLists)
    ELSE LET tag == HeadEncodingTag(tree, encodingTag) IN
         IF tag.kind = "throw" THEN tag
         ELSE LET acc == Records(NoLists, tree.children, 1) IN
              IF acc.kind = "throw" THEN acc
              ELSE Ok([meta |-> PrimaryMeta(tree, acc.value, tag.value),
                       persons |-> acc.value.persons,
                       families |-> acc.value.families])

-----------------------------------------------------------------------------
(* Fallback object-graph normalizer.  An object's entries are a list of     *)
(* [key, value] in insertion order; an absent list is the empty list, which *)
(* the code treats alike; an absent reference is Absent.                    *)

Absent == [absent |-> TRUE]

Entry(key, value) == [key |-> key, value |-> value]

\* head.characterSet.value (Undef when any part is missing), individuals,
\* families
Graph(characterSet, individuals, families) ==
    [characterSet |-> characterSet, individuals |-> individuals,
     families |-> families]

\* refs.map(ref => canonicalizeId(ref.family))
CanonicalFamilies(refs) ==
    IF \E k \in DOMAIN refs : refs[k] = Null THEN Throw(ReadNull("family"), NoLists)
    ELSE Ok([k \in 1..Len(refs) |-> ParserCanonicalizeId(refs[k].family)])

\* refs.map(child => canonicalizeId(child.pointer))
CanonicalPointers(refs) ==
    IF \E k \in DOMAIN refs : refs[k] = Null THEN Throw(ReadNull("pointer"), NoLists)
    ELSE Ok([k \in 1..Len(refs) |-> ParserCanonicalizeId(refs[k].pointer)])

\* an individual of the read-gedcom graph: name is the list of name records
\* ([given, surname], Undef where a part is missing), birth and death are
\* Absent or an event whose date is Absent or [value |-> v]
Individual(name, birth, death, familyAsChild, familyAsSpouse) ==
    [name |-> name, birth |-> birth, death |-> death,
     familyAsChild |-> familyAsChild, familyAsSpouse |-> familyAsSpouse]

\* `${nameRecord.given || ''} /${nameRecord.surname || ''}/`.trim()
RawName(nameRecord) ==
    trim(OrEmpty(nameRecord.given) \o <<" ", "/">> \o OrEmpty(nameRecord.surname)
         \o <<"/">>)

\* if (event && event.date) date = event.date.value || ''
EventDate(event, date) ==
    IF event \in {Absent, Null} THEN date
    ELSE IF event.date \in {Absent, Null} THEN date
    ELSE OrEmpty(event.date.value)

parseReadGedcomIndividual(id, individual) ==
    IF individual = Null THEN Throw(ReadNull("name"), NoLists)
    ELSE IF individual.name # <<>> /\ individual.name[1] = Null
    THEN Throw(ReadNull("given"), NoLists)
    ELSE LET person == ParsedPerson(ParserCanonicalizeId(id), <<>>, <<>>, <<>>)
             named == IF individual.name = <<>> THEN person
                      ELSE WithName(person, parseName(RawName(individual.name[1])))
             famc == CanonicalFamilies(individual.familyAsChild)
             fams == CanonicalFamilies(individual.familyAsSpouse)
         IN  IF famc.kind = "throw" THEN famc
             ELSE IF fams.kind = "throw" THEN fams
             ELSE Ok([named EXCEPT
                          !.birthDate = EventDate(individual.birth, @),
                          !.deathDate = EventDate(individual.death, @),
                          !.famc = famc.value,
                          !.fams = fams.value])

SpouseRawPointer(ref) == IF ref = Absent THEN Undef ELSE ref.pointer

\* if (family.husband) parsedFamily.husband = canonicalizeId(family.husband.pointer)
Spouse(ref) == IF ref = Absent THEN Undef ELSE ParserCanonicalizeId(ref.pointer)

parseReadGedcomFamily(id, family) ==
    IF family = Null THEN Throw(ReadNull("husband"), NoLists)
    ELSE LET children == CanonicalPointers(family.children) IN
         IF children.kind = "throw" THEN children
         ELSE Ok(ParsedFamily(ParserCanonicalizeId(id), Spouse(family.husband),
                              Spouse(family.wife), children.value))

RECURSIVE ReadIndividuals(_, _, _)
ReadIndividuals(acc, entries, k) ==
    IF k > Len(entries) THEN Ok(acc)
    ELSE LET person == parseReadGedcomIndividual(entries[k].key, entries[k].value) IN
         IF person.kind = "throw" THEN Throw(person.message, acc)
         ELSE ReadIndividuals([acc EXCEPT !.persons = Append(@, person.value)],
                              entries, k + 1)

RECURSIVE ReadFamilies(_, _, _)
ReadFamilies(acc, entries, k) ==
    IF k > Len(entries) THEN Ok(acc)
    ELSE LET family == parseReadGedcomFamily(entries[k].key, entries[k].value) IN
         IF family.kind = "throw" THEN Throw(family.message, acc)
         ELSE ReadFamilies([acc EXCEPT !.families = Append(@, family.value)],
                           entries, k + 1)

Utf8Tag == <<"U", "T", "F", "-", "8">>

\* normalizeReadGedcomResult; lists is the pair of lists it starts from
normalizeReadGedcomResult(result, lists) ==
    IF result = Null THEN Throw(ReadNull("head"), lists)
    ELSE LET encodingTag == IF Truthy(result.characterSet)
                            THEN result.characterSet ELSE Utf8Tag
             persons == ReadIndividuals(lists, result.individuals, 1)
         IN  IF persons.kind = "throw" THEN persons
             ELSE LET acc == ReadFamilies(persons.value, result.families, 1) IN
                  IF acc.kind = "throw" THEN acc
                  ELSE Ok([meta |-> [individuals |-> Len(acc.value.persons),
                                     families |-> Len(acc.value.families),
                                     encodingTag |-> encodingTag],
                           persons |-> acc.value.persons,
                           families |-> acc.value.families])

-----------------------------------------------------------------------------
(* Parse orchestrator.  parseGedcom and readGedcom are libraries: what they *)
(* return or throw is an input of the call.  Buffer.toString throws only    *)
(* for a buffer longer than the longest string (tooLong).                   *)

Error(message) == [kind |-> "error", message |-> message]

Called(fn, arg) == [fn |-> fn, arg |-> arg]

TooLongMessage == <<"Cannot create a string longer than 0x1fffffe8 characters">>

ReadGedcomArgumentText(buffer, gedcomText) == gedcomText

\* readGedcom(buffer)
ReadGedcomArgument(buffer, gedcomText) == buffer

FreshListsKeepPrevious(previous) ==
    [persons |-> previous.persons, families |-> previous.families]

\* const persons = []; const families = []; of the fallback normalizer, with
\* the abandoned primary attempt at hand
FreshLists(previous) == NoLists

PrimaryAttempt(primaryLib) ==
    IF primaryLib.kind = "throw" THEN primaryLib
    ELSE normalizeParseGedcomResult(primaryLib.value, Utf8Tag)

FallbackAttempt(fallbackLib, primary) ==
    IF fallbackLib.kind = "throw" THEN fallbackLib
    ELSE normalizeReadGedcomResult(fallbackLib.value, FreshLists(primary))

BothFailed(primary, fallback) ==
    Error(<<"Failed to parse GEDCOM file with both parsers. Primary error: ",
            primary.message, ". Fallback error: ", fallback.message>>)

parseGedcomWithFallback(buffer, tooLong, primaryLib, fallbackLib) ==
    LET decode == Called("detectAndDecodeGedcom", buffer) IN
    IF tooLong
    THEN [out |-> Error(<<"Failed to decode GEDCOM file: ", TooLongMessage>>),
          calls |-> <<decode>>]
    ELSE
    LET gedcomText == detectAndDecodeGedcom(buffer)
        primary == PrimaryAttempt(primaryLib)
        primaryCalls ==
            <<decode, Called("parseGedcom", gedcomText)>>
            \o (IF primaryLib.kind = "ok"
                THEN <<Called("normalizeParseGedcomResult", primaryLib.value)>>
                ELSE <<>>)
    IN  IF primary.kind = "ok"
        THEN [out |-> Ok(primary.value), calls |-> primaryCalls]
        ELSE
        LET fallback == FallbackAttempt(fallbackLib, primary)
            fallbackCalls ==
                <<Called("readGedcom", ReadGedcomArgument(buffer, gedcomText))>>
                \o (IF fallbackLib.kind = "ok"
                    THEN <<Called("normalizeReadGedcomResult", fallbackLib.value)>>
                    ELSE <<>>)
        IN  [out |-> IF fallback.kind = "ok" THEN Ok(fallback.value)
                     ELSE BothFailed(primary, fallback),
             calls |-> primaryCalls \o fallbackCalls]

-----------------------------------------------------------------------------
(* Inputs of the traversal engine: ParseResults over three persons and two  *)
(* families, with missing spouses, dangling person and family references,   *)
(* cycles, shared ancestors and links recorded on one side only             *)

I1 == <<"@", "I", "1", "@">>
I2 == <<"@", "I", "2", "@">>
I3 == <<"@", "I", "3", "@">>
I9 == <<"@", "I", "9", "@">>
F1 == <<"@", "F", "1", "@">>
F2 == <<"@", "F", "2", "@">>

PersonIds == <<I1, I2, I3>>

FamilyIds == <<F1, F2>>

RootIds == {<<"I", "1">>, I1, I2, <<"I", "3">>, I3, <<"I", "9">>}

FamcChoices == {<<>>, <<F1>>, <<F2>>, <<F1, F2>>}

Shapes == {"consistent", "loose", "duplicate"}

\* famc[p] is person p's famc; husband[f], wife[f] are family f's spouses;
\* fams and children are the same links seen from the other side, and a
\* family with no spouse has no record. Shape "loose" adds links the other
\* side does not have; shape "duplicate" adds a second record with id I1.
TraversalInput(famc, husband, wife, shape) ==
    LET recorded(f) == Truthy(husband[f]) \/ Truthy(wife[f])
        fams(p) ==
            IF shape = "loose" /\ p = 3 THEN FamilyIds
            ELSE LET spouse(fid) ==
                         \E f \in 1..2 : /\ FamilyIds[f] = fid
                                         /\ recorded(f)
                                         /\ PersonIds[p] \in {husband[f], wife[f]}
                 IN  SelectSeq(FamilyIds, spouse)
        children(f) ==
            LET child(pid) ==
                    \E p \in 1..3 : PersonIds[p] = pid /\ Contains(famc[p], FamilyIds[f])
            IN  SelectSeq(PersonIds, child)
                \o (IF shape = "loose" /\ f = 1 THEN <<I9>> ELSE <<>>)
        person(p) == ParsedPerson(PersonIds[p], <<"P">>, famc[p], fams(p))
        family(f) == ParsedFamily(FamilyIds[f], husband[f], wife[f], children(f))
        families == (IF recorded(1) THEN <<family(1)>> ELSE <<>>)
                    \o (IF recorded(2) THEN <<family(2)>> ELSE <<>>)
        twin == IF shape = "duplicate"
                THEN <<ParsedPerson(I1, <<"Q">>, <<F2>>, <<F1>>)>>
                ELSE <<>>
    IN  ParseResult(<<person(1), person(2), person(3)>> \o twin, families,
                    <<"U", "T", "F", "-", "8">>)

TraversalInputs ==
    {TraversalInput(<<c1, c2, c3>>, <<h1, h2>>, <<w1, w2>>, shape) :
        c1 \in FamcChoices \cup {<<F2, F1>>}, c2 \in FamcChoices,
        c3 \in {<<>>, <<F1>>, <<F2>>},
        h1 \in {Undef, I1, I2, I9}, h2 \in {Undef, I3},
        w1 \in {Undef, I2, I3}, w2 \in {Undef, I2}, shape \in Shapes}

-----------------------------------------------------------------------------
(* State machine *)

Idle == [op |-> "none"]

NoResult == [kind |-> "none"]

EmptyParseResult == ParseResult(<<>>, <<>>, <<"U", "T", "F", "-", "8">>)

\* The ParseResult a traversal call is given is any item of the input pool.
Init ==
    /\ pr \in TraversalInputs
    /\ call = Idle
    /\ out = NoResult
    /\ calls = <<>>
    /\ visitedPersons = <<>>
    /\ frames = <<>>

Outcome(r) ==
    IF r.kind = "ok"
    THEN [kind |-> "ok", value |-> r.value, iterations |-> r.iterations,
          generationRefs |-> r.generationRefs]
    ELSE [kind |-> "error", message |-> r.message]

\* A call keeps nothing from one invocation to the next, so each behaviour
\* makes one call on the ParseResult it holds.
ComputeAncestors(rootId, maxGenerations) ==
    LET r == computeAncestors(pr, rootId, maxGenerations) IN
    /\ call = Idle
    /\ call' = [op |-> "computeAncestors", rootId |-> rootId,
                maxGenerations |-> maxGenerations]
    /\ out' = Outcome(r)
    /\ visitedPersons' = IF r.kind = "ok" THEN r.visitedPersons ELSE <<>>
    /\ pr' = AfterCall(pr)
    /\ UNCHANGED <<calls, frames>>

ComputeDescendants(rootId, maxGenerations) ==
    LET r == computeDescendants(pr, rootId, maxGenerations) IN
    /\ call = Idle
    /\ call' = [op |-> "computeDescendants", rootId |-> rootId,
                maxGenerations |-> maxGenerations]
    /\ out' = Outcome(r)
    /\ visitedPersons' = IF r.kind = "ok" THEN r.visitedPersons ELSE <<>>
    /\ pr' = AfterCall(pr)
    /\ UNCHANGED <<calls, frames>>

Next ==
    \/ \E rootId \in RootIds, n \in 0..MaxGen : ComputeAncestors(rootId, n)
    \/ \E rootId \in RootIds, n \in 0..MaxGen : ComputeDescendants(rootId, n)

Spec == Init /\ [][Next]_vars

-----------------------------------------------------------------------------
(* Claims about the traversal engine, checked under Spec *)

IsTraversal == call.op \in {"computeAncestors", "computeDescendants"}

Returned == IsTraversal /\ out.kind = "ok"

RECURSIVE Flatten(_)
Flatten(seqs) == IF seqs = <<>> THEN <<>> ELSE Head(seqs) \o Flatten(Tail(seqs))

RootPerson == MapGet(pr.persons, ParserCanonicalizeId(call.rootId))

RootIsKnown == MapHas(pr.persons, ParserCanonicalizeId(call.rootId))

\* C1: with maxGenerations >= 1 and a root whose canonical form is a person's
\* id, the call returns, root is the canonical form of rootId, generation 0
\* is exactly [canonical rootId], and the result is the one the canonical
\* spelling of the same rootId gives.
C1_RootAndGenerationZero ==
    (IsTraversal /\ call.maxGenerations >= 1 /\ RootIsKnown) =>
        /\ out.kind = "ok"
        /\ out.value.root = ParserCanonicalizeId(call.rootId)
        /\ Len(out.value.generations) >= 1
        /\ out.value.generations[1] = <<ParserCanonicalizeId(call.rootId)>>
        /\ out = Outcome(Traverse(call.op, pr, ParserCanonicalizeId(call.rootId),
                                  call.maxGenerations))

C1_Witness ==
    /\ Returned
    /\ call.rootId = <<"I", "1">>
    /\ call.maxGenerations >= 1
    /\ out.value.root = I1
    /\ Len(out.value.generations) >= 2

NoResolvableParentFamily ==
    \A k \in DOMAIN RootPerson.famc : ~MapHas(pr.families, RootPerson.famc[k])

\* C2: with maxGenerations = N >= 1 a result has between 1 and N generations,
\* none of them empty; an ancestors root with no resolvable parent family
\* yields generations [[root]], no edges and the root as the only node.
C2_GenerationsBounded ==
    (Returned /\ call.maxGenerations >= 1) =>
        /\ Len(out.value.generations) >= 1
        /\ Len(out.value.generations) <= call.maxGenerations
        /\ \A k \in DOMAIN out.value.generations : out.value.generations[k] # <<>>
        /\ (call.op = "computeAncestors" /\ NoResolvableParentFamily) =>
              /\ out.value.generations = <<<<out.value.root>>>>
              /\ out.value.edges = <<>>
              /\ out.value.nodes = <<RootPerson>>

C2_Witness ==
    /\ Returned
    /\ call.op = "computeAncestors"
    /\ call.maxGenerations = MaxGen
    /\ Len(out.value.generations) = 2
    /\ ~NoResolvableParentFamily

DanglingParents ==
    {i \in DOMAIN out.value.edges : ~MapHas(pr.persons, out.value.edges[i].parent)}

\* C3 as stated: every ancestors result has len(edges) = len(nodes) - 1 and
\* only father / mother relations.
C3_EdgesAreNodesMinusOne ==
    (Returned /\ call.op = "computeAncestors") =>
        /\ Len(out.value.edges) = Len(out.value.nodes) - 1
        /\ \A i \in DOMAIN out.value.edges :
              out.value.edges[i].relation \in {"father", "mother"}

\* C3 amended: every ancestors result has one edge per discovered non-root
\* identifier; len(nodes) - 1 is smaller by the number of edges whose parent
\* is not the id of any person; relations are father or mother.
C3_EdgesAreDiscoveries ==
    (Returned /\ call.op = "computeAncestors") =>
        /\ Len(out.value.edges) = Len(visitedPersons) - 1
        /\ Len(out.value.nodes) - 1
              = Len(out.value.edges) - Cardinality(DanglingParents)
        /\ \A i \in DOMAIN out.value.edges :
              out.value.edges[i].relation \in {"father", "mother"}

C3_Witness ==
    /\ Returned
    /\ call.op = "computeAncestors"
    /\ Len(out.value.edges) = 2
    /\ Cardinality(DanglingParents) = 1
    /\ Len(out.value.nodes) = 2

\* C4: when the canonical form of rootId is no person's id the call fails
\* with the root-not-found message carrying rootId as the caller wrote it,
\* and nothing is returned.
C4_UnknownRootFails ==
    (IsTraversal /\ ~RootIsKnown) =>
        /\ out = [kind |-> "error",
                  message |-> <<"Root person with ID '", call.rootId,
                                "' not found in GEDCOM data">>]
        /\ visitedPersons = <<>>

C4_Witness ==
    /\ IsTraversal
    /\ call.rootId = <<"I", "9">>
    /\ call.maxGenerations = 2
    /\ out.kind = "error"

Discovered(e) == IF call.op = "computeAncestors" THEN e.parent ELSE e.child

\* C9: in every result each identifier is discovered at most once: no
\* identifier occurs twice in the generations, no person twice in nodes, and
\* no identifier is the discovered end of two edges, nor is the root of any.
C9_DiscoveredOnce ==
    Returned =>
        /\ NoDuplicates(Flatten(out.value.generations))
        /\ NoDuplicates(out.value.nodes)
        /\ \A i, j \in DOMAIN out.value.nodes :
              i # j => out.value.nodes[i].id # out.value.nodes[j].id
        /\ \A i, j \in DOMAIN out.value.edges :
              i # j => Discovered(out.value.edges[i]) # Discovered(out.value.edges[j])
        /\ \A i \in DOMAIN out.value.edges :
              Discovered(out.value.edges[i]) # out.value.root

\* pedigree collapse: the root's two parent families share a parent
C9_Witness ==
    /\ Returned
    /\ call.op = "computeAncestors"
    /\ call.maxGenerations >= 2
    /\ Len(RootPerson.famc) = 2
    /\ MapHas(pr.families, RootPerson.famc[1])
    /\ MapHas(pr.families, RootPerson.famc[2])
    /\ Truthy(MapGet(pr.families, RootPerson.famc[1]).wife)
    /\ MapGet(pr.families, RootPerson.famc[1]).wife
          = MapGet(pr.families, RootPerson.famc[2]).husband
    /\ Len(out.value.edges) >= 1

Justifies(f, e) ==
    /\ e.relation = "father" => f.husband = e.parent
    /\ e.relation = "mother" => f.wife = e.parent

\* families of child c, as the traversal resolves them
ParentFamilies(c) ==
    {MapGet(pr.families, MapGet(pr.persons, c).famc[k]) :
        k \in {k \in DOMAIN MapGet(pr.persons, c).famc :
                  MapHas(pr.families, MapGet(pr.persons, c).famc[k])}}

IsExampleData ==
    /\ Len(pr.persons) = 3
    /\ pr.persons[1].id = I1 /\ pr.persons[1].famc = <<>>
    /\ pr.persons[2].id = I2 /\ pr.persons[2].famc = <<>>
    /\ pr.persons[3].id = I3 /\ pr.persons[3].famc = <<F1>>
    /\ pr.families = <<ParsedFamily(F1, I1, I2, <<I3>>)>>

\* C10: every ancestors edge is justified by a family in the child's famc
\* (father = its husband, mother = its wife); when one family alone supplies
\* both parents of a child the father edge comes right before the mother
\* edge; and the I1/I2/F1/I3 example with root "I3" and maxGenerations 3
\* gives generations [[I3],[I1,I2]] and the father edge, then the mother edge.
C10_EdgesJustified ==
    (Returned /\ call.op = "computeAncestors") =>
        /\ \A i \in DOMAIN out.value.edges :
              LET e == out.value.edges[i] IN
              /\ MapHas(pr.persons, e.child)
              /\ \E f \in ParentFamilies(e.child) : Justifies(f, e)
        /\ \A i, j \in DOMAIN out.value.edges :
              LET e == out.value.edges[i]
                  d == out.value.edges[j]
              IN  (/\ e.child = d.child
                   /\ e.relation = "father" /\ d.relation = "mother"
                   /\ Cardinality({f \in ParentFamilies(e.child) :
                                      Justifies(f, e) \/ Justifies(f, d)}) = 1)
                  => j = i + 1
        /\ (IsExampleData /\ call.rootId = <<"I", "3">> /\ call.maxGenerations = 3) =>
              /\ out.value.generations = <<<<I3>>, <<I1, I2>>>>
              /\ out.value.edges =
                    <<[parent |-> I1, child |-> I3, relation |-> "father"],
                      [parent |-> I2, child |-> I3, relation |-> "mother"]>>

C10_Witness ==
    /\ Returned
    /\ call.op = "computeAncestors"
    /\ IsExampleData
    /\ call.rootId = <<"I", "3">>
    /\ call.maxGenerations = 3
    /\ Len(out.value.edges) = 2


Range(seq) == {seq[k] : k \in DOMAIN seq}

\* the families of person p's fams that the traversal resolves, in fams order
SpouseFamilies(p) ==
    LET fams == MapGet(pr.persons, p).fams
        resolved(fid) == MapHas(pr.families, fid)
        ids == SelectSeq(fams, resolved)
    IN  [k \in DOMAIN ids |-> MapGet(pr.families, ids[k])]

FamiliesWithChild(p, c) ==
    {k \in DOMAIN SpouseFamilies(p) : Contains(SpouseFamilies(p)[k].children, c)}

\* the family whose children loop pushed the edge from p to c
EdgeFamily(p, c) == SpouseFamilies(p)[Min(FamiliesWithChild(p, c))]

IsExampleFams ==
    /\ IsExampleData
    /\ pr.persons[1].fams = <<F1>>
    /\ pr.persons[2].fams = <<F1>>
    /\ pr.persons[3].fams = <<>>

\* C11: every descendants edge has a known person as parent and a child of
\* one of that person's fams families, and its relation is father exactly
\* when the parent is the husband of the family that supplied the child,
\* mother in every other case; the I1/I2/F1/I3 example with root "I1"
\* gives generations [[I1],[I3]] and the single edge (I1, I3, father).
C11_DescendantEdges ==
    (Returned /\ call.op = "computeDescendants") =>
        /\ \A i \in DOMAIN out.value.edges :
              LET e == out.value.edges[i] IN
              /\ MapHas(pr.persons, e.parent)
              /\ FamiliesWithChild(e.parent, e.child) # {}
              /\ e.relation = "father"
                    <=> EdgeFamily(e.parent, e.child).husband = e.parent
              /\ e.relation = "mother"
                    <=> EdgeFamily(e.parent, e.child).husband # e.parent
        /\ (IsExampleFams /\ call.rootId = <<"I", "1">> /\ call.maxGenerations >= 2) =>
              /\ out.value.generations = <<<<I1>>, <<I3>>>>
              /\ out.value.edges =
                    <<[parent |-> I1, child |-> I3, relation |-> "father"]>>

\* a traversing person who is neither husband nor wife of the family
C11_Witness ==
    /\ Returned
    /\ call.op = "computeDescendants"
    /\ \E i \in DOMAIN out.value.edges :
          LET e == out.value.edges[i]
              f == EdgeFamily(e.parent, e.child)
          IN  /\ Truthy(f.husband)
              /\ f.husband # e.parent
              /\ f.wife # e.parent
              /\ e.relation = "mother"

\* the arrays of a ParseResult
InputArrays(parseResult) ==
    {ArrayRef("persons", 0), ArrayRef("families", 0)}
    \cup {ArrayRef("famc", i) : i \in DOMAIN parseResult.persons}
    \cup {ArrayRef("fams", i) : i \in DOMAIN parseResult.persons}
    \cup {ArrayRef("children", i) : i \in DOMAIN parseResult.families}

GenerationListsAreFresh ==
    Returned =>
        /\ Len(out.generationRefs) = Len(out.value.generations)
        /\ NoDuplicates(out.generationRefs)
        /\ \A k \in DOMAIN out.generationRefs :
              out.generationRefs[k] \notin InputArrays(pr)

\* C12: no call, returning or failing, changes the ParseResult it is given,
\* and every generation list of a result is an array the call allocated, one
\* per generation, none of them an array of the ParseResult.
C12_ArgumentUnchanged ==
    /\ [][pr' = pr]_vars
    /\ []GenerationListsAreFresh

C12_Witness ==
    /\ Returned
    /\ call.op = "computeDescendants"
    /\ Len(out.value.generations) = 3
    /\ out.generationRefs[3] = ArrayRef("[...currentGeneration]", 2)
    /\ Len(pr.families) = 2
    /\ pr.families[1].children # <<>>

\* every identifier the ParseResult uses for a person
MentionedPersons ==
    {pr.persons[i].id : i \in DOMAIN pr.persons}
    \cup {id \in {pr.families[i].husband : i \in DOMAIN pr.families} : Truthy(id)}
    \cup {id \in {pr.families[i].wife : i \in DOMAIN pr.families} : Truthy(id)}
    \cup UNION {Range(pr.families[i].children) : i \in DOMAIN pr.families}

\* the identifiers one link away from z in the direction of the call
Links(z) ==
    IF ~MapHas(pr.persons, z) THEN {}
    ELSE IF call.op = "computeAncestors"
    THEN {id \in UNION {{f.husband, f.wife} : f \in ParentFamilies(z)} : Truthy(id)}
    ELSE UNION {Range(SpouseFamilies(z)[k].children) : k \in DOMAIN SpouseFamilies(z)}

\* a discovered identifier links back to the root
RootOnCycle ==
    \E i \in DOMAIN out.value.edges :
        out.value.root \in Links(Discovered(out.value.edges[i]))

\* C13 as stated: every call ends within maxGenerations iterations of the
\* generation loop and visits no more identifiers than there are persons.
C13_VisitedWithinPersonCount ==
    Returned =>
        /\ out.iterations <= call.maxGenerations
        /\ Len(visitedPersons) <= Len(pr.persons)

\* C13 amended: every call ends within maxGenerations iterations, one per
\* recorded generation; the identifiers visited are distinct and each is one
\* the ParseResult uses for a person (a person's id, a husband, a wife or a
\* child), so there are at most as many as those, and at most the person
\* count when every visited identifier is a person's id.
C13_TerminatesWithinBounds ==
    Returned =>
        /\ out.iterations <= call.maxGenerations
        /\ out.iterations = Len(out.value.generations)
        /\ NoDuplicates(visitedPersons)
        /\ Range(visitedPersons) \subseteq MentionedPersons
        /\ Len(visitedPersons) <= Cardinality(MentionedPersons)
        /\ (\A k \in DOMAIN visitedPersons : MapHas(pr.persons, visitedPersons[k]))
              => Len(visitedPersons) <= Len(pr.persons)

\* a family lists a child no person record has, on data with a cycle
C13_Witness ==
    /\ Returned
    /\ call.op = "computeDescendants"
    /\ out.iterations = call.maxGenerations
    /\ Len(visitedPersons) > Len(pr.persons)
    /\ RootOnCycle

\* the first n breadth-first depth levels from frontier, up to the first
\* empty one
RECURSIVE Levels(_, _, _)
Levels(seen, frontier, n) ==
    IF n = 0 \/ frontier = {} THEN <<>>
    ELSE <<frontier>>
         \o Levels(seen \cup UNION {Links(z) : z \in frontier},
                   UNION {Links(z) : z \in frontier} \ seen, n - 1)

\* C20: generations[k] holds exactly the identifiers whose shortest chain of
\* links from the root has length k, each once, for every k below
\* maxGenerations that has such an identifier, and there are no other
\* generations.
C20_BreadthFirstLevels ==
    Returned =>
        LET levels == Levels({out.value.root}, {out.value.root}, call.maxGenerations) IN
        /\ Len(out.value.generations) = Len(levels)
        /\ \A k \in DOMAIN out.value.generations :
              /\ Range(out.value.generations[k]) = levels[k]
              /\ NoDuplicates(out.value.generations[k])

\* a parent one link from the root that is also two links from it
C20_Witness ==
    /\ Returned
    /\ call.op = "computeAncestors"
    /\ call.maxGenerations = 3
    /\ Len(out.value.generations) >= 2
    /\ \E x \in Range(out.value.generations[2]) :
          \E z \in Range(out.value.generations[2]) : z # x /\ x \in Links(z)

\* the identifiers of the recorded generations
Recorded == Range(Flatten(out.value.generations))

\* the index of the generation that records id, generation 0 having index 1
GenerationOf(id) ==
    CHOOSE k \in DOMAIN out.value.generations : Contains(out.value.generations[k], id)

\* the endpoint of edge e the traversal came from
Source(e) == IF call.op = "computeAncestors" THEN e.child ELSE e.parent

\* C21: for every maxGenerations >= 1, every person in nodes and both
\* endpoints of every edge appear in some recorded generation, every
\* identifier in a recorded generation has a person in nodes, and each edge
\* joins an identifier of generation g with one of generation g + 1; no
\* person or edge beyond the maxGenerations limit is returned.
C21_PartsDescribeSamePersons ==
    (Returned /\ call.maxGenerations >= 1) =>
        /\ \A i \in DOMAIN out.value.nodes : out.value.nodes[i].id \in Recorded
        /\ \A id \in Recorded :
              \E i \in DOMAIN out.value.nodes : out.value.nodes[i].id = id
        /\ \A i \in DOMAIN out.value.edges :
              LET e == out.value.edges[i] IN
              /\ e.parent \in Recorded
              /\ e.child \in Recorded
              /\ GenerationOf(Discovered(e)) = GenerationOf(Source(e)) + 1

-----------------------------------------------------------------------------
(* Canonicalization applied to every raw identifier of bounded length, by   *)
(* both copies, and applied again to its own output                         *)

InitCanon ==
    /\ pr = EmptyParseResult
    /\ call \in {[op |-> "raw", id |-> id] : id \in Strs \cup {Undef}}
    /\ out = NoResult
    /\ calls = <<>>
    /\ visitedPersons = <<>>
    /\ frames = <<>>

CanonicalizeId ==
    /\ call.op = "raw"
    /\ call' = [op |-> "canonicalizeId", id |-> call.id, times |-> 1,
                previous |-> NoResult]
    /\ out' = [kind |-> "ok",
               value |-> [parser |-> ParserCanonicalizeId(call.id),
                          ancestry |-> AncestryCanonicalizeId(call.id)]]
    /\ UNCHANGED <<pr, calls, visitedPersons, frames>>

CanonicalizeIdAgain ==
    /\ call.op = "canonicalizeId"
    /\ call.times = 1
    /\ call' = [call EXCEPT !.times = 2, !.previous = out]
    /\ out' = [kind |-> "ok",
               value |-> [parser |-> ParserCanonicalizeId(out.value.parser),
                          ancestry |-> AncestryCanonicalizeId(out.value.ancestry)]]
    /\ UNCHANGED <<pr, calls, visitedPersons, frames>>

NextCanon == CanonicalizeId \/ CanonicalizeIdAgain

SpecCanon == InitCanon /\ [][NextCanon]_vars

\* C5: canonicalizing a canonicalized identifier changes nothing; "I5" and
\* "@I5@" both give "@I5@" and "" gives ""; the parser's and the traversal's
\* copies return the same output for every input.
C5_CanonicalizeIdempotent ==
    call.op = "canonicalizeId" =>
        /\ out.value.parser = out.value.ancestry
        /\ call.times = 2 => out = call.previous
        /\ call.id \in {<<"I", "5">>, <<"@", "I", "5", "@">>}
              => out.value.parser = <<"@", "I", "5", "@">>
        /\ call.id = <<>> => out.value.parser = <<>>

C5_Witness ==
    /\ call.op = "canonicalizeId"
    /\ call.times = 2
    /\ call.id = <<"I", "5">>
    /\ out.value.ancestry = <<"@", "I", "5", "@">>

-----------------------------------------------------------------------------
(* The parse orchestrator on bounded inputs: a buffer, and what the two     *)
(* libraries return for it                                                  *)

ParseBuffers == {<<48>>, <<239, 187, 191, 48>>}

Leaf(type, pointer, value) == Node(type, Undef, pointer, value, <<>>)

RecordPool ==
    {Node("HEAD", Undef, Undef, Undef, <<Leaf("CHAR", Undef, <<"A", "N", "S", "I">>)>>),
     Node("INDI", I1, Undef, Undef,
          <<Leaf("NAME", Undef, <<"J", " ", "/", "D", "/">>),
            Node("BIRT", Undef, Undef, Undef, <<Leaf("DATE", Undef, <<"1", "9">>)>>),
            Leaf("FAMC", F1, Undef), Leaf("FAMS", Undef, Undef)>>),
     Node("INDI", I2, Undef, Undef,
          <<Leaf("NAME", Undef, <<"J", " ">>),
            Node("DEAT", Undef, Undef, Undef,
                 <<Leaf("PLAC", Undef, <<"X">>), Leaf("DATE", Undef, Undef)>>),
            Leaf("FAMS", F1, Undef)>>),
     Node("INDI", I2, Undef, Undef,
          <<Leaf("NAME", Undef, Undef),
            Node("BIRT", Undef, Undef, Undef, <<Null, Leaf("DATE", Undef, <<"1">>)>>)>>),
     Node("INDI", Undef, Undef, Undef, <<>>),
     Node("INDI", I3, Undef, Undef, <<Null>>),
     Node("FAM", F1, Undef, Undef,
          <<Leaf("HUSB", I1, Undef), Leaf("WIFE", Undef, <<"I", "2">>),
            Leaf("CHIL", I3, Undef), Leaf("CHIL", Undef, Undef),
            Leaf("CHIL", Undef, <<"I", "2">>)>>),
     Node("TRLR", Undef, Undef, Undef, <<>>),
     Null}

RECURSIVE RecordLists(_)
RecordLists(n) ==
    IF n = 0 THEN {<<>>}
    ELSE {<<r>> \o rs : r \in RecordPool, rs \in RecordLists(n - 1)}

Trees == MalformedTrees \cup {Tree(rs) : rs \in UNION {RecordLists(n) : n \in 0..MaxRecords}}

PrimaryOutcomes == {Throw(<<"parse-gedcom: bad line">>, NoLists)} \cup {Ok(t) : t \in Trees}

IndividualEntries ==
    <<Entry(<<"I", "1">>,
            Individual(<<[given |-> <<"J">>, surname |-> <<"D">>]>>,
                       [date |-> [value |-> <<"1", "9">>]], Absent,
                       <<[family |-> <<"F", "1">>]>>, <<>>)),
      Entry(I1,
            Individual(<<[given |-> <<"J">>, surname |-> Undef],
                         [given |-> <<"K">>, surname |-> <<"D">>]>>,
                       [date |-> Absent], [date |-> [value |-> Undef]],
                       <<>>, <<[family |-> F1], [family |-> Undef]>>)),
      Entry(<<"I", "2">>, Null),
      Entry(I3,
            Individual(<<Null>>, Absent, Absent, <<>>, <<[family |-> F1]>>))>>

FamilyEntries ==
    <<Entry(<<"F", "1">>,
            [husband |-> [pointer |-> <<"I", "1">>], wife |-> [pointer |-> Undef],
             children |-> <<[pointer |-> I3]>>]),
      Entry(F2, Null),
      Entry(<<"F", "3">>,
            [husband |-> Absent, wife |-> [pointer |-> I2],
             children |-> <<[pointer |-> Undef]>>])>>

\* the entries of list whose index is in keep, in order
Pick(list, keep) == LET in(e) == \E k \in keep : list[k] = e IN SelectSeq(list, in)

Graphs ==
    {Graph(cs, Pick(IndividualEntries, is), Pick(FamilyEntries, fs)) :
        cs \in {Undef},
        is \in {x \in SUBSET DOMAIN IndividualEntries : Cardinality(x) <= 2},
        fs \in {x \in SUBSET DOMAIN FamilyEntries : Cardinality(x) <= 2}}
    \cup {Graph(<<"A", "N", "S", "I">>, <<>>, <<>>), Null}

FallbackOutcomes == {Throw(<<"read-gedcom: bad header">>, NoLists)} \cup {Ok(g) : g \in Graphs}

NotCalled == [kind |-> "not called"]

InitParse ==
    /\ pr = EmptyParseResult
    /\ call = Idle
    /\ out = NoResult
    /\ calls = <<>>
    /\ visitedPersons = <<>>
    /\ frames = <<>>

ParseGedcomWithFallback(buffer, tooLong, primaryLib, fallbackLib) ==
    LET r == parseGedcomWithFallback(buffer, tooLong, primaryLib, fallbackLib) IN
    /\ call = Idle
    /\ call' = [op |-> "parseGedcomWithFallback",
                buffer |-> buffer,
                tooLong |-> tooLong,
                parseGedcom |-> IF Len(r.calls) >= 2 THEN primaryLib ELSE NotCalled,
                readGedcom |->
                    IF \E k \in DOMAIN r.calls : r.calls[k].fn = "readGedcom"
                    THEN fallbackLib ELSE NotCalled]
    /\ out' = r.out
    /\ calls' = r.calls
    /\ UNCHANGED <<pr, visitedPersons, frames>>

NextParse ==
    /\ call = Idle
    /\ \E buffer \in ParseBuffers, tooLong \in BOOLEAN,
          primaryLib \in PrimaryOutcomes, fallbackLib \in FallbackOutcomes :
           ParseGedcomWithFallback(buffer, tooLong, primaryLib, fallbackLib)

SpecParse == InitParse /\ [][NextParse]_vars

IsParse == call.op = "parseGedcomWithFallback"

Fns == [k \in DOMAIN calls |-> calls[k].fn]

\* C6: every ParseResult the orchestrator returns, from either normalizer,
\* has meta.individuals = len(persons) and meta.families = len(families).
C6_MetaCounts ==
    (IsParse /\ out.kind = "ok") =>
        /\ out.value.meta.individuals = Len(out.value.persons)
        /\ out.value.meta.families = Len(out.value.families)

\* the primary normalizer skipped an INDI record that has no xref_id
C6_Witness ==
    /\ IsParse
    /\ out.kind = "ok"
    /\ Len(calls) = 3
    /\ CountOfType(call.parseGedcom.value.children, "INDI") = 2
    /\ out.value.meta.individuals = 1

PrimaryThrew ==
    \/ call.parseGedcom.kind = "throw"
    \/ normalizeParseGedcomResult(call.parseGedcom.value, Utf8Tag).kind = "throw"

\* C7: decoding comes first; a decode failure ends the call with the
\* 'Failed to decode GEDCOM file' error and no other stage; otherwise the
\* primary attempt follows on the decoded text, the fallback is attempted
\* if and only if the primary attempt threw, after it, on the raw buffer;
\* a successful primary attempt is returned without the fallback.
C7_StageOrder ==
    IsParse =>
        /\ calls[1] = Called("detectAndDecodeGedcom", call.buffer)
        /\ call.tooLong =>
              /\ Len(calls) = 1
              /\ out.kind = "error"
              /\ out.message[1] = "Failed to decode GEDCOM file: "
        /\ ~call.tooLong =>
              /\ calls[2] = Called("parseGedcom", detectAndDecodeGedcom(call.buffer))
              /\ Fns \in {<<"detectAndDecodeGedcom", "parseGedcom">> \o primary \o fallback :
                            primary \in {<<>>, <<"normalizeParseGedcomResult">>},
                            fallback \in {<<>>, <<"readGedcom">>,
                                          <<"readGedcom", "normalizeReadGedcomResult">>}}
              /\ (\E k \in DOMAIN calls : calls[k].fn = "readGedcom") <=> PrimaryThrew
              /\ \A k \in DOMAIN calls :
                    calls[k].fn = "readGedcom" => calls[k].arg = call.buffer
              /\ call.parseGedcom.kind = "ok" => Fns[3] = "normalizeParseGedcomResult"
              /\ ~PrimaryThrew =>
                    out = Ok(normalizeParseGedcomResult(call.parseGedcom.value,
                                                        Utf8Tag).value)

\* 'Invalid GEDCOM structure' from the primary normalizer, then the fallback
\* on a buffer that starts with a byte-order mark
C7_Witness ==
    /\ IsParse
    /\ call.buffer = <<239, 187, 191, 48>>
    /\ call.parseGedcom = Ok([shape |-> "no children"])
    /\ Len(calls) = 5
    /\ out.kind = "ok"
    /\ Len(out.value.persons) = 2

\* what each attempt does on its own
PrimaryAlone == PrimaryAttempt(call.parseGedcom)

FallbackAlone ==
    IF call.readGedcom.kind = "throw" THEN call.readGedcom
    ELSE normalizeReadGedcomResult(call.readGedcom.value, NoLists)

\* C8: when both attempts throw the call fails with one error holding both
\* messages and returns nothing; a returned ParseResult is the whole output
\* of the one normalizer that succeeded, with nothing of the failed attempt.
C8_AllOrNothing ==
    (IsParse /\ ~call.tooLong) =>
        /\ (PrimaryAlone.kind = "throw" /\ FallbackAlone.kind = "throw") =>
              out = [kind |-> "error",
                     message |->
                        <<"Failed to parse GEDCOM file with both parsers. Primary error: ",
                          PrimaryAlone.message, ". Fallback error: ",
                          FallbackAlone.message>>]
        /\ out.kind = "ok" =>
              \/ PrimaryAlone.kind = "ok" /\ out.value = PrimaryAlone.value
              \/ /\ PrimaryAlone.kind = "throw"
                 /\ FallbackAlone.kind = "ok"
                 /\ out.value = FallbackAlone.value
        /\ out.kind # "ok" =>
              PrimaryAlone.kind = "throw" /\ FallbackAlone.kind = "throw"

\* both attempts threw after each had collected a person
C8_Witness ==
    /\ IsParse
    /\ ~call.tooLong
    /\ PrimaryAlone.kind = "throw" /\ Len(PrimaryAlone.persons) = 1
    /\ FallbackAlone.kind = "throw" /\ Len(FallbackAlone.persons) = 1
    /\ out.kind = "error"

-----------------------------------------------------------------------------
(* Claims about the two normalizers, checked under SpecParse on the         *)
(* ParseResult the orchestrator returns and the library value it came from  *)

Ids(list) == [k \in DOMAIN list |-> list[k].id]

\* the result is the primary normalizer's
PrimaryReturned == IsParse /\ out.kind = "ok" /\ Len(calls) = 3

\* the result is the fallback normalizer's
FallbackReturned ==
    /\ IsParse
    /\ out.kind = "ok"
    /\ \E k \in DOMAIN calls : calls[k].fn = "normalizeReadGedcomResult"

SourceTree == call.parseGedcom.value

SourceGraph == call.readGedcom.value

\* C15: in every ParseResult returned, from either normalizer, no two
\* persons have the same id and no two families have the same id.
C15_IdsDistinct ==
    (IsParse /\ out.kind = "ok") =>
        /\ NoDuplicates(Ids(out.value.persons))
        /\ NoDuplicates(Ids(out.value.families))

IsPointerForm(id) == Len(id) >= 1 /\ id[1] = "@" /\ id[Len(id)] = "@"

\* every identifier a ParseResult stores; an unset husband or wife stores none
StoredIds(parseResult) ==
    Range(Ids(parseResult.persons))
    \cup Range(Ids(parseResult.families))
    \cup UNION {Range(parseResult.persons[k].famc) \cup Range(parseResult.persons[k].fams) :
                  k \in DOMAIN parseResult.persons}
    \cup UNION {Range(parseResult.families[k].children) : k \in DOMAIN parseResult.families}
    \cup {id \in UNION {{parseResult.families[k].husband, parseResult.families[k].wife} :
                          k \in DOMAIN parseResult.families} : id # Undef}

\* C16 as stated: every identifier the fallback normalizer stores starts and
\* ends with '@'.
C16_FallbackIdsPointerForm ==
    FallbackReturned => \A id \in StoredIds(out.value) : IsPointerForm(id)

\* stored is what the fallback normalizer keeps of the raw identifier
KeepsRaw(stored, raw) ==
    IF ~Truthy(raw) THEN stored = <<>>
    ELSE IF IsPointerForm(raw) THEN stored = raw
    ELSE stored = <<"@">> \o raw \o <<"@">>

KeepsReference(stored, ref) ==
    IF ref = Absent THEN stored = Undef ELSE KeepsRaw(stored, ref.pointer)

\* C16 amended: every identifier the fallback normalizer stores is the raw
\* one if that starts and ends with '@', the raw one wrapped in '@' if it
\* does not, and the empty string if the raw one is missing or empty; an
\* absent husband or wife object leaves the field unset.
C16_FallbackIdsCanonicalOrEmpty ==
    FallbackReturned =>
        /\ \A id \in StoredIds(out.value) : IsPointerForm(id) \/ id = <<>>
        /\ Len(out.value.persons) = Len(SourceGraph.individuals)
        /\ Len(out.value.families) = Len(SourceGraph.families)
        /\ \A k \in DOMAIN out.value.persons :
              LET person == out.value.persons[k]
                  raw == SourceGraph.individuals[k]
              IN  /\ KeepsRaw(person.id, raw.key)
                  /\ Len(person.famc) = Len(raw.value.familyAsChild)
                  /\ Len(person.fams) = Len(raw.value.familyAsSpouse)
                  /\ \A j \in DOMAIN person.famc :
                        KeepsRaw(person.famc[j], raw.value.familyAsChild[j].family)
                  /\ \A j \in DOMAIN person.fams :
                        KeepsRaw(person.fams[j], raw.value.familyAsSpouse[j].family)
        /\ \A k \in DOMAIN out.value.families :
              LET family == out.value.families[k]
                  raw == SourceGraph.families[k]
              IN  /\ KeepsRaw(family.id, raw.key)
                  /\ KeepsReference(family.husband, raw.value.husband)
                  /\ KeepsReference(family.wife, raw.value.wife)
                  /\ Len(family.children) = Len(raw.value.children)
                  /\ \A j \in DOMAIN family.children :
                        KeepsRaw(family.children[j], raw.value.children[j].pointer)

\* an unwrapped key, a wrapped key, a missing family reference and a wife
\* whose pointer is missing, in one result
C16_Witness ==
    /\ FallbackReturned
    /\ Ids(out.value.persons) = <<I1, I1>>
    /\ out.value.persons[2].fams = <<F1, <<>>>>
    /\ Len(out.value.families) = 1
    /\ out.value.families[1].husband = I1
    /\ out.value.families[1].wife = <<>>

\* the top-level records of the source tree with the tag and an xref_id
Accepted(type) ==
    LET accepted(record) == record.type = type /\ Truthy(record.xref_id)
    IN  SelectSeq(SourceTree.children, accepted)

XrefIds(records) == [k \in DOMAIN records |-> records[k].xref_id]

\* C17: the primary normalizer's persons are the top-level INDI records that
\* have an xref_id, in source order, with id = xref_id; its families are the
\* top-level FAM records that have one, likewise; nothing else contributes;
\* and a tree without an array of children is rejected with 'Invalid GEDCOM
\* structure', so that the fallback is tried and a combined failure names it.
C17_PrimaryRecords ==
    /\ PrimaryReturned =>
          /\ Ids(out.value.persons) = XrefIds(Accepted("INDI"))
          /\ Ids(out.value.families) = XrefIds(Accepted("FAM"))
    /\ (IsParse /\ ~call.tooLong /\ call.parseGedcom.kind = "ok"
        /\ SourceTree.shape # "root") =>
          /\ ~PrimaryReturned
          /\ \E k \in DOMAIN calls : calls[k].fn = "readGedcom"
          /\ out.kind = "error" => out.message[2] = <<"Invalid GEDCOM structure">>

\* two persons in source order, which is not identifier order
C17_Witness ==
    /\ PrimaryReturned
    /\ Len(SourceTree.children) = 2
    /\ Ids(out.value.persons) = <<I2, I1>>

\* the k-th person and the k-th family, with the record each was built from
PersonRecord(k) == Accepted("INDI")[k]

FamilyRecord(k) == Accepted("FAM")[k]

ChildrenOfType(record, type) ==
    LET tagged(child) == child.type = type IN SelectSeq(record.children, tagged)

Pointed(children) ==
    LET pointed(child) == Truthy(child.pointer)
        kept == SelectSeq(children, pointed)
    IN  [k \in DOMAIN kept |-> kept[k].pointer]

ValueOrPointer(child) == IF Truthy(child.pointer) THEN child.pointer ELSE child.value

LastSpouse(children) ==
    IF children = <<>> THEN Undef ELSE ValueOrPointer(children[Len(children)])

PointedOrValued(children) ==
    LET either(child) == Truthy(ValueOrPointer(child))
        kept == SelectSeq(children, either)
    IN  [k \in DOMAIN kept |-> ValueOrPointer(kept[k])]

PrimaryLists ==
    /\ \A k \in DOMAIN out.value.persons :
          /\ out.value.persons[k].famc = Pointed(ChildrenOfType(PersonRecord(k), "FAMC"))
          /\ out.value.persons[k].fams = Pointed(ChildrenOfType(PersonRecord(k), "FAMS"))
    /\ \A k \in DOMAIN out.value.families :
          /\ out.value.families[k].husband = LastSpouse(ChildrenOfType(FamilyRecord(k), "HUSB"))
          /\ out.value.families[k].wife = LastSpouse(ChildrenOfType(FamilyRecord(k), "WIFE"))

\* C18 as stated: famc / fams are the pointers of the FAMC / FAMS children
\* that have one, husband / wife the pointer or else the value of the HUSB /
\* WIFE child, and children has one entry per CHIL child.
C18_OneEntryPerChil ==
    PrimaryReturned =>
        /\ PrimaryLists
        /\ \A k \in DOMAIN out.value.families :
              Len(out.value.families[k].children)
                 = Len(ChildrenOfType(FamilyRecord(k), "CHIL"))

\* C18 amended: as stated, except that children holds, in source order, the
\* pointer or else the value of each CHIL child that has either, and nothing
\* for a CHIL child that has neither, so len(children) is the number of CHIL
\* children with a pointer or a non-empty value.
C18_PrimaryReferences ==
    PrimaryReturned =>
        /\ PrimaryLists
        /\ \A k \in DOMAIN out.value.families :
              out.value.families[k].children
                 = PointedOrValued(ChildrenOfType(FamilyRecord(k), "CHIL"))

\* a family with a CHIL pointer, a CHIL without pointer or value and a CHIL
\* value, a WIFE given by value, and a person with a FAMS without pointer
C18_Witness ==
    /\ PrimaryReturned
    /\ Len(out.value.families) = 1
    /\ Len(ChildrenOfType(FamilyRecord(1), "CHIL")) = 3
    /\ out.value.families[1].children = <<I3, <<"I", "2">>>>
    /\ out.value.families[1].wife = <<"I", "2">>
    /\ Len(out.value.persons) = 1
    /\ out.value.persons[1].famc = <<F1>>
    /\ out.value.persons[1].fams = <<>>

-----------------------------------------------------------------------------
(* The encoding detector on every buffer of bounded length over bytes that  *)
(* spell the three byte-order marks, decoded by the orchestrator with and   *)
(* without its mark                                                         *)

\* EF BB BF, FF FE and FE FF, and the letter A
Bytes == {65, 187, 191, 239, 254, 255}

RECURSIVE BuffersOfLen(_)
BuffersOfLen(n) ==
    IF n = 0 THEN {<<>>}
    ELSE {<<b>> \o rest : b \in Bytes, rest \in BuffersOfLen(n - 1)}

Buffers == UNION {BuffersOfLen(n) : n \in 0..MaxBytes}

Ansi == <<"A", "N", "S", "I">>

\* what parseGedcom and readGedcom return for the buffer: a tree with or
\* without HEAD / CHAR, or a tree the primary normalizer rejects and a graph
\* with head.characterSet
DecodeLibraries ==
    LET graph == Ok(Graph(Undef, <<>>, <<>>))
        indi == Node("INDI", I1, Undef, Undef, <<>>)
        head(children) == Node("HEAD", Undef, Undef, Undef, children)
    IN  {[parseGedcom |-> Ok(Tree(<<head(<<Leaf("CHAR", Undef, Ansi)>>), indi>>)),
          readGedcom |-> graph],
         [parseGedcom |-> Ok(Tree(<<head(<<Leaf("CHAR", Undef, Undef)>>), indi>>)),
          readGedcom |-> graph],
         [parseGedcom |-> Ok(Tree(<<indi>>)), readGedcom |-> graph],
         [parseGedcom |-> Ok([shape |-> "no children"]),
          readGedcom |-> Ok(Graph(Ansi, <<>>, <<>>))]}

InitDecode ==
    /\ pr = EmptyParseResult
    /\ call = Idle
    /\ out = NoResult
    /\ calls = <<>>
    /\ visitedPersons = <<>>
    /\ frames = <<>>

DecodeAndParse(buffer, libraries) ==
    LET r == parseGedcomWithFallback(buffer, FALSE, libraries.parseGedcom,
                                     libraries.readGedcom)
    IN  /\ call' = [op |-> "parseGedcomWithFallback", buffer |-> buffer,
                    tooLong |-> FALSE, libraries |-> libraries,
                    times |-> 1, previous |-> NoResult]
        /\ out' = r.out
        /\ calls' = r.calls
        /\ UNCHANGED <<pr, visitedPersons, frames>>

\* the length of the byte-order mark the buffer starts with, 0 without one
MarkLength(buffer) ==
    IF Len(buffer) >= 3 /\ SubSeq(buffer, 1, 3) = <<239, 187, 191>> THEN 3
    ELSE IF Len(buffer) >= 2 /\ SubSeq(buffer, 1, 2) \in {<<255, 254>>, <<254, 255>>} THEN 2
    ELSE 0

\* the caller parses the same file again with its byte-order mark cut off
DecodeAndParseWithoutMark ==
    LET buffer == SubSeq(call.buffer, MarkLength(call.buffer) + 1, Len(call.buffer))
        r == parseGedcomWithFallback(buffer, FALSE, call.libraries.parseGedcom,
                                     call.libraries.readGedcom)
    IN  /\ call.op = "parseGedcomWithFallback"
        /\ call.times = 1
        /\ MarkLength(call.buffer) > 0
        /\ call' = [call EXCEPT !.buffer = buffer, !.times = 2,
                                !.previous = [buffer |-> call.buffer, out |-> out,
                                              calls |-> calls]]
        /\ out' = r.out
        /\ calls' = r.calls
        /\ UNCHANGED <<pr, visitedPersons, frames>>

NextDecode ==
    \/ /\ call = Idle
       /\ \E buffer \in Buffers, libraries \in DecodeLibraries :
             DecodeAndParse(buffer, libraries)
    \/ DecodeAndParseWithoutMark

SpecDecode == InitDecode /\ [][NextDecode]_vars

\* the text handed to parseGedcom
DecodedText(trace) == trace[2].arg

\* the value of the CHAR child of the HEAD record, when there is one
HeadChar(tree) ==
    LET isHead(record) == record.type = "HEAD"
        isChar(child) == child.type = "CHAR" /\ Truthy(child.value)
        heads == SelectSeq(tree.children, isHead)
        chars == IF heads = <<>> THEN <<>> ELSE SelectSeq(heads[1].children, isChar)
    IN  IF chars = <<>> THEN Utf8Tag ELSE chars[1].value

\* the tag the sources of the call give, whatever the buffer
SourceTag ==
    IF Len(calls) = 3 THEN HeadChar(call.libraries.parseGedcom.value)
    ELSE IF Truthy(call.libraries.readGedcom.value.characterSet)
    THEN call.libraries.readGedcom.value.characterSet
    ELSE Utf8Tag

DecodedByPrefix ==
    LET buffer == call.buffer
        rest(n) == SubSeq(buffer, n + 1, Len(buffer))
    IN  /\ calls[1] = Called("detectAndDecodeGedcom", buffer)
        /\ DecodedText(calls) =
              IF MarkLength(buffer) = 3 THEN Utf8Decode(rest(3))
              ELSE IF MarkLength(buffer) = 2 THEN Utf16leDecode(rest(2))
              ELSE Utf8Decode(buffer)
        /\ out.kind = "ok"
        /\ out.value.meta.encodingTag = SourceTag
        /\ call.times = 2 =>
              out.value.meta.encodingTag = call.previous.out.value.meta.encodingTag

\* C19 as stated: the text is the UTF-8 decoding of the buffer less 3 bytes
\* after EF BB BF, the UTF-16LE decoding of the buffer less 2 bytes after FF
\* FE or FE FF, and the UTF-8 decoding of the whole buffer otherwise; a
\* buffer starting EF BB BF gives the same text as the buffer without the
\* mark; encodingTag is the HEAD / CHAR value or 'UTF-8', whatever the marks.
C19_MarkNeverChangesText ==
    IsParse =>
        /\ DecodedByPrefix
        /\ (call.times = 2 /\ MarkLength(call.previous.buffer) = 3) =>
              DecodedText(calls) = DecodedText(call.previous.calls)

\* C19 amended: as stated, except that a buffer starting EF BB BF gives the
\* same text as the buffer without the mark when what follows the mark does
\* not start with a byte-order mark of its own.
C19_DecodedByPrefix ==
    IsParse =>
        /\ DecodedByPrefix
        /\ (call.times = 2 /\ MarkLength(call.previous.buffer) = 3
            /\ MarkLength(call.buffer) = 0) =>
              DecodedText(calls) = DecodedText(call.previous.calls)

\* EF BB BF A A decoded with and without the mark, under a HEAD / CHAR tag
C19_Witness ==
    /\ IsParse
    /\ call.times = 2
    /\ call.previous.buffer = <<239, 187, 191, 65, 65>>
    /\ DecodedText(calls) = <<65, 65>>
    /\ DecodedText(call.previous.calls) = <<65, 65>>
    /\ out.value.meta.encodingTag = Ansi

-----------------------------------------------------------------------------
(* GedcomGenerator: the GEDCOM text of a ParseResult, kept as its lines,    *)
(* the strings that lines.join('\n') puts together.  A line is a fixed      *)
(* text, the characters of an interpolated value, and a fixed text after.   *)

Line(before, value, after) == [before |-> before, value |-> value, after |-> after]

Fixed(text) == Line(text, <<>>, "")

\* `${value}`: undefined is written out
Interpolated(value) ==
    IF value = Undef THEN <<"u", "n", "d", "e", "f", "i", "n", "e", "d">> ELSE value

\* text.split('T')[0]
BeforeT(text) ==
    LET ts == {i \in DOMAIN text : text[i] = "T"} IN
    IF ts = {} THEN text ELSE SubSeq(text, 1, Min(ts) - 1)

\* text.replace(/-/g, ' ')
DashesToSpaces(text) == [i \in DOMAIN text |-> IF text[i] = "-" THEN " " ELSE text[i]]

\* one line per identifier of the list, in order
LinePerId(before, ids) == [k \in DOMAIN ids |-> Line(before, Interpolated(ids[k]), "")]

\* a line with the value, when the value is truthy
LineIf(before, value) ==
    IF Truthy(value) THEN <<Line(before, value, "")>> ELSE <<>>

\* 1 BIRT / 1 DEAT and the date under it, when the date is truthy
EventLines(tag, date) ==
    IF Truthy(date) THEN <<Fixed(tag), Line("2 DATE ", date, "")>> ELSE <<>>

generateIndividual(person) ==
    <<Line("0 ", Interpolated(person.id), " INDI")>>
    \o LineIf("1 NAME ", person.name)
    \o EventLines("1 BIRT", person.birthDate)
    \o EventLines("1 DEAT", person.deathDate)
    \o LinePerId("1 FAMC ", person.famc)
    \o LinePerId("1 FAMS ", person.fams)

generateFamily(family) ==
    <<Line("0 ", Interpolated(family.id), " FAM")>>
    \o LineIf("1 HUSB ", family.husband)
    \o LineIf("1 WIFE ", family.wife)
    \o LinePerId("1 CHIL ", family.children)

\* now is what new Date().toISOString() gives when the text is generated
generateGedcom(data, now) ==
    <<Fixed("0 HEAD"), Fixed("1 SOUR n8n-gedcom"), Fixed("1 VERS 1.0"),
      Fixed("1 GEDC"), Fixed("2 VERS 5.5.1"), Fixed("2 FORM LINEAGE-LINKED"),
      Line("1 CHAR ", Interpolated(data.meta.encodingTag), ""),
      Line("1 DATE ", DashesToSpaces(BeforeT(now)), "")>>
    \o Flatten([k \in DOMAIN data.persons |-> generateIndividual(data.persons[k])])
    \o Flatten([k \in DOMAIN data.families |-> generateFamily(data.families[k])])
    \o <<Fixed("0 TRLR")>>

RECURSIVE Sum(_)
Sum(numbers) == IF numbers = <<>> THEN 0 ELSE Head(numbers) + Sum(Tail(numbers))

\* gedcomContent.length, in UTF-16 code units: every character of the inputs
\* is one unit, and join('\n') puts one between two lines
TextLength(lines) ==
    Sum([k \in DOMAIN lines |->
            Len(lines[k].before) + Len(lines[k].value) + Len(lines[k].after)])
    + Len(lines) - 1

\* the bytes of a character in UTF-8: of the characters of the inputs, one
\* takes two and one takes three, and every other is ASCII
Utf8Size(character) ==
    IF character = "é" THEN 2
    ELSE IF character = "€" THEN 3
    ELSE 1

\* Buffer.from(gedcomContent, 'utf8').length; the fixed texts are ASCII
Utf8Length(lines) ==
    Sum([k \in DOMAIN lines |->
            Len(lines[k].before)
            + Sum([j \in DOMAIN lines[k].value |-> Utf8Size(lines[k].value[j])])
            + Len(lines[k].after)])
    + Len(lines) - 1

-----------------------------------------------------------------------------
(* GedcomFinder: persons and families whose fields contain the texts of a   *)
(* filter.  A filter is the object the node reads: a function from the keys *)
(* it has to their texts.                                                   *)

NoFilter == [key \in {} |-> <<>>]

\* filter.key, undefined when the filter does not have the key
FilterGet(filter, key) == IF key \in DOMAIN filter THEN filter[key] ELSE Undef

\* String.prototype.includes
includes(text, part) ==
    \E i \in 0..(Len(text) - Len(part)) : SubSeq(text, i + 1, i + Len(part)) = part

\* the letters A to Z, in upper case and in lower case
Letters ==
    [upper |-> <<"A", "B", "C", "D", "E", "F", "G", "H", "I", "J", "K", "L", "M",
                 "N", "O", "P", "Q", "R", "S", "T", "U", "V", "W", "X", "Y", "Z">>,
     lower |-> <<"a", "b", "c", "d", "e", "f", "g", "h", "i", "j", "k", "l", "m",
                 "n", "o", "p", "q", "r", "s", "t", "u", "v", "w", "x", "y", "z">>]

\* String.prototype.toLowerCase, on the letters the inputs hold
toLowerCase(text) ==
    [i \in DOMAIN text |->
        IF \E j \in 1..26 : Letters.upper[j] = text[i]
        THEN Letters.lower[CHOOSE j \in 1..26 : Letters.upper[j] = text[i]]
        ELSE text[i]]

ReadUndefined(property) ==
    <<"Cannot read properties of undefined (reading '", property, "')">>

\* what one test of the filter callback gives: "pass", "fail", or the
\* property whose read on undefined throws
IncludesText(text, part) ==
    IF text = Undef THEN "includes"
    ELSE IF includes(text, part) THEN "pass" ELSE "fail"

\* ids.some(id => id.includes(part))
RECURSIVE SomeIncludes(_, _, _)
SomeIncludes(ids, part, k) ==
    IF k > Len(ids) THEN "fail"
    ELSE IF ids[k] = Undef THEN "includes"
    ELSE IF includes(ids[k], part) THEN "pass"
    ELSE SomeIncludes(ids, part, k + 1)

PersonTests == <<"id", "name", "birthDate", "deathDate", "fams", "famc">>

PersonTest(person, key, part) ==
    IF key = "name"
    THEN IF person.name = Undef THEN "toLowerCase"
         ELSE IncludesText(toLowerCase(person.name), toLowerCase(part))
    ELSE IF key \in {"fams", "famc"} THEN SomeIncludes(person[key], part, 1)
    ELSE IncludesText(person[key], part)

\* the callback of findIndividuals on one person: the tests in order, each
\* made only when the filter's text is truthy, the first that does not pass
\* ending it
RECURSIVE PersonPasses(_, _, _)
PersonPasses(person, filter, k) ==
    IF k > Len(PersonTests) THEN "pass"
    ELSE IF ~Truthy(FilterGet(filter, PersonTests[k]))
    THEN PersonPasses(person, filter, k + 1)
    ELSE IF PersonTest(person, PersonTests[k], filter[PersonTests[k]]) = "pass"
    THEN PersonPasses(person, filter, k + 1)
    ELSE PersonTest(person, PersonTests[k], filter[PersonTests[k]])

FamilyTests == <<"id", "husband", "wife", "children">>

FamilyTest(family, key, part) ==
    IF key = "children" THEN SomeIncludes(family.children, part, 1)
    ELSE IF key = "id" THEN IncludesText(family.id, part)
    ELSE IF ~Truthy(family[key]) THEN "fail"
    ELSE IncludesText(family[key], part)

RECURSIVE FamilyPasses(_, _, _)
FamilyPasses(family, filter, k) ==
    IF k > Len(FamilyTests) THEN "pass"
    ELSE IF ~Truthy(FilterGet(filter, FamilyTests[k]))
    THEN FamilyPasses(family, filter, k + 1)
    ELSE IF FamilyTest(family, FamilyTests[k], filter[FamilyTests[k]]) = "pass"
    THEN FamilyPasses(family, filter, k + 1)
    ELSE FamilyTest(family, FamilyTests[k], filter[FamilyTests[k]])

\* Array.prototype.filter over verdicts, one per element: the elements that
\* pass, or the throw of the first callback that throws
Filtered(list, verdicts) ==
    LET thrown == {k \in DOMAIN list : verdicts[k] \notin {"pass", "fail"}}
        passes(x) == \E k \in DOMAIN list : list[k] = x /\ verdicts[k] = "pass"
    IN  IF thrown # {}
        THEN [kind |-> "throw", message |-> ReadUndefined(verdicts[Min(thrown)])]
        ELSE Ok(SelectSeq(list, passes))

findIndividuals(data, filter) ==
    Filtered(data.persons,
             [k \in DOMAIN data.persons |-> PersonPasses(data.persons[k], filter, 1)])

findFamilies(data, filter) ==
    Filtered(data.families,
             [k \in DOMAIN data.families |-> FamilyPasses(data.families[k], filter, 1)])

\* an optional filter that was not given
NotGiven == [given |-> FALSE]

Given(filter) == [given |-> TRUE, filter |-> filter]

findAll(data, personFilter, familyFilter) ==
    LET individuals == IF personFilter.given
                       THEN findIndividuals(data, personFilter.filter)
                       ELSE Ok(data.persons)
        families == IF familyFilter.given
                    THEN findFamilies(data, familyFilter.filter)
                    ELSE Ok(data.families)
    IN  IF individuals.kind = "throw" THEN individuals
        ELSE IF families.kind = "throw" THEN families
        ELSE Ok([meta |-> [individuals |-> Len(individuals.value),
                           families |-> Len(families.value),
                           totalIndividuals |-> data.meta.individuals,
                           totalFamilies |-> data.meta.families,
                           encodingTag |-> data.meta.encodingTag],
                 persons |-> individuals.value,
                 families |-> families.value])

-----------------------------------------------------------------------------
(* The node's execute.  An item carries its json and the parameters the     *)
(* node reads for its index; what the input helpers, the two parsing        *)
(* libraries and the clock do for it is part of the item.  execute is an    *)
(* async function: it runs up to the httpRequest of a parse item whose      *)
(* source is not 'binary', waits there, and goes on when the request has    *)
(* settled; while it waits, other calls of execute and other code run.      *)

\* items[i].json: the persons, families and meta it has, a property being
\* had when it is truthy; the json of an item without one is Absent
Json(has, data) == [has |-> has, data |-> data]

ExampleParseResult ==
    ParseResult(<<ParsedPerson(I1, <<"P">>, <<>>, <<F1>>),
                  ParsedPerson(I2, <<"P">>, <<>>, <<F1>>),
                  ParsedPerson(I3, <<"P">>, <<F1>>, <<>>)>>,
                <<ParsedFamily(F1, I1, I2, <<I3>>)>>, Utf8Tag)

InvalidInputMessage ==
    <<"Input data must be a valid parsed GEDCOM result with persons, families, and meta properties">>

ValidInputWithoutMeta(json) == {"persons", "families"} \subseteq json.has

\* !(!inputData.persons || !inputData.families || !inputData.meta)
ValidInput(json) == {"persons", "families", "meta"} \subseteq json.has

\* what one iteration of the loop does before the catch: the core calls it
\* made, and what it pushes or the error it throws
Step(core, outcome) == [core |-> core, outcome |-> outcome]

ThrowMessage(message) == [kind |-> "throw", message |-> message]

\* what a call of the core gives the iteration: the json it pushes, or the
\* error that reaches the catch
Pushed(result) ==
    IF result.kind = "ok" THEN Ok(result.value) ELSE ThrowMessage(result.message)

\* case 'ancestors' and case 'descendants'; reading .persons of a json that
\* is not there is a TypeError, which the catch handles as any other error
TraversalItem(item) ==
    IF item.json = Absent THEN Step(<<>>, ThrowMessage(ReadUndefined("persons")))
    ELSE IF ~ValidInput(item.json) THEN Step(<<>>, ThrowMessage(InvalidInputMessage))
    ELSE IF ~Truthy(item.rootId)
    THEN Step(<<>>, ThrowMessage(<<"Root Person ID is required for ",
                                   item.operation, " operation">>))
    ELSE LET fn == IF item.operation = "ancestors"
                   THEN "computeAncestors" ELSE "computeDescendants"
         IN  Step(<<Called(fn, [parseResult |-> item.json.data,
                                rootId |-> item.rootId,
                                maxGenerations |-> item.maxGenerations])>>,
                  Pushed(Traverse(fn, item.json.data, item.rootId,
                                  item.maxGenerations)))

\* a Buffer, or undefined where one is expected
NoBuffer == [kind |-> "undefined"]

BufferOf(bytes) == [kind |-> "buffer", bytes |-> bytes]

\* lines 391-409: the buffer the input helper gives, or the error thrown
\* on the way to it
Acquire(item) ==
    IF item.acquired.kind = "throw" THEN ThrowMessage(item.acquired.message)
    ELSE IF item.source = "binary" THEN Ok(item.acquired.body)
    ELSE IF item.acquired.statusCode # "200"
    THEN ThrowMessage(<<"Failed to download GEDCOM file from URL: ",
                        item.acquired.statusCode>>)
    ELSE Ok(item.acquired.body)

\* case 'parse'
ParseItem(item) ==
    LET gedcomBuffer == Acquire(item) IN
    IF gedcomBuffer.kind = "throw" THEN Step(<<>>, gedcomBuffer)
    ELSE IF gedcomBuffer.value = NoBuffer \/ Len(gedcomBuffer.value.bytes) = 0
    THEN Step(<<>>, ThrowMessage(<<"GEDCOM file is empty or could not be read">>))
    ELSE Step(<<Called("parseGedcomWithFallback", gedcomBuffer.value.bytes)>>,
              Pushed(parseGedcomWithFallback(gedcomBuffer.value.bytes, FALSE,
                                             item.parseGedcom, item.readGedcom).out))

\* the pushed item of the binary output format: the json, and the file under
\* the binary property; data is the base64 text of the UTF-8 bytes of the
\* content
BinaryOutput(item, gedcomContent) ==
    [kind |-> "ok",
     value |-> [filename |-> item.filename, size |-> Utf8Length(gedcomContent)],
     binary |-> [property \in {item.binaryPropertyName} |->
                    [data |-> [base64 |-> [utf8 |-> gedcomContent]],
                     mimeType |-> "text/plain",
                     fileName |-> item.filename,
                     fileExtension |-> "ged"]]]

TextOutput(gedcomContent) ==
    Ok([gedcom |-> gedcomContent, size |-> TextLength(gedcomContent)])

GenerateOutput(item, gedcomContent) ==
    IF item.outputFormat = "binary" THEN BinaryOutput(item, gedcomContent)
    ELSE TextOutput(gedcomContent)

\* case 'generate'
GenerateItem(item) ==
    IF item.json = Absent THEN Step(<<>>, ThrowMessage(ReadUndefined("persons")))
    ELSE IF ~ValidInput(item.json) THEN Step(<<>>, ThrowMessage(InvalidInputMessage))
    ELSE Step(<<Called("generateGedcom", item.json.data)>>,
              GenerateOutput(item, generateGedcom(item.json.data, item.now)))

\* { ...findInputData, searchResults } when includeFullData is 'all', and the
\* results alone otherwise
WithFullData(item, results) ==
    IF item.includeFullData = "all"
    THEN [meta |-> item.json.data.meta, persons |-> item.json.data.persons,
          families |-> item.json.data.families, searchResults |-> results]
    ELSE results

\* case 'individual' of the search
FindIndividualsItem(item, found) ==
    IF found.kind = "throw" THEN found
    ELSE Ok(WithFullData(item,
                [meta |-> [totalFound |-> Len(found.value),
                           totalIndividuals |-> item.json.data.meta.individuals,
                           searchType |-> "individual",
                           filters |-> item.individualFilters],
                 individuals |-> found.value]))

\* case 'family' of the search
FindFamiliesItem(item, found) ==
    IF found.kind = "throw" THEN found
    ELSE Ok(WithFullData(item,
                [meta |-> [totalFound |-> Len(found.value),
                           totalFamilies |-> item.json.data.meta.families,
                           searchType |-> "family",
                           filters |-> item.familyFilters],
                 families |-> found.value]))

\* Object.keys(filters).length > 0 ? filters : undefined
IfAnyKey(filter) == IF DOMAIN filter # {} THEN Given(filter) ELSE NotGiven

\* case 'all' of the search; personFilter || {} is the filter that was read
FindAllItem(item, allResults) ==
    IF allResults.kind = "throw" THEN allResults
    ELSE Ok(WithFullData(item,
                [meta |-> [individuals |-> allResults.value.meta.individuals,
                           families |-> allResults.value.meta.families,
                           totalIndividuals |-> allResults.value.meta.totalIndividuals,
                           totalFamilies |-> allResults.value.meta.totalFamilies,
                           encodingTag |-> allResults.value.meta.encodingTag,
                           searchType |-> "all"],
                 filters |-> [individual |-> item.individualFilters,
                              family |-> item.familyFilters],
                 persons |-> allResults.value.persons,
                 families |-> allResults.value.families]))

\* case 'find'
FindItem(item) ==
    IF item.json = Absent THEN Step(<<>>, ThrowMessage(ReadUndefined("persons")))
    ELSE IF ~ValidInput(item.json) THEN Step(<<>>, ThrowMessage(InvalidInputMessage))
    ELSE IF item.searchType = "individual"
    THEN Step(<<Called("findIndividuals", item.individualFilters)>>,
              FindIndividualsItem(item, findIndividuals(item.json.data,
                                                        item.individualFilters)))
    ELSE IF item.searchType = "family"
    THEN Step(<<Called("findFamilies", item.familyFilters)>>,
              FindFamiliesItem(item, findFamilies(item.json.data, item.familyFilters)))
    ELSE IF item.searchType = "all"
    THEN Step(<<Called("findAll", [personFilter |-> IfAnyKey(item.individualFilters),
                                   familyFilter |-> IfAnyKey(item.familyFilters)])>>,
              FindAllItem(item, findAll(item.json.data,
                                        IfAnyKey(item.individualFilters),
                                        IfAnyKey(item.familyFilters))))
    ELSE Step(<<>>, ThrowMessage(<<"Unknown search type: ", item.searchType>>))

\* switch (operation): the body of the try block for one item
ExecuteItem(item) ==
    IF item.operation = "parse" THEN ParseItem(item)
    ELSE IF item.operation = "generate" THEN GenerateItem(item)
    ELSE IF item.operation = "find" THEN FindItem(item)
    ELSE IF item.operation \in {"ancestors", "descendants"} THEN TraversalItem(item)
    ELSE Step(<<>>, ThrowMessage(<<"Unknown operation: ", item.operation>>))

\* the iteration for this item waits for httpRequest: its source is not
\* 'binary'
Awaits(item) == item.operation = "parse" /\ item.source # "binary"

\* the execution context of a call: the input items with the parameters for
\* their indexes, the node's continueOnFail setting, and how many times
\* other code changed an item while the call waited
Context(items, continueOnFail, changes) ==
    [items |-> items, continueOnFail |-> continueOnFail, changes |-> changes]

NoItem == [operation |-> "none"]

\* a call of execute: its context as it is now; its status, "awaiting" at
\* the httpRequest of item i, "returned" or "threw"; the item it read before
\* waiting; returnData; for every item the loop reached, what its iteration
\* did; and what the call's promise settled with
Frame(ctx, status, i, pending, returnData, log, result) ==
    [ctx |-> ctx, status |-> status, i |-> i, pending |-> pending,
     returnData |-> returnData, log |-> log, out |-> result]

\* item is the item as the iteration read it
Logged(i, item, step) ==
    [item |-> i, read |-> item, core |-> step.core, outcome |-> step.outcome]

\* returnData.push({ json, pairedItem: { item: i } }), with the binary
\* property when the iteration made one
Output(outcome, i) ==
    IF "binary" \in DOMAIN outcome
    THEN [json |-> outcome.value, binary |-> outcome.binary,
          pairedItem |-> [item |-> i - 1]]
    ELSE [json |-> outcome.value, pairedItem |-> [item |-> i - 1]]

ErrorOutput(message, i) ==
    [json |-> [error |-> message], pairedItem |-> [item |-> i - 1]]

RECURSIVE ExecuteLoop(_, _, _, _)

AfterItemDropsFailure(ctx, i, returnData, log, item, step) ==
    IF step.outcome.kind = "ok"
    THEN ExecuteLoop(ctx, i + 1, Append(returnData, Output(step.outcome, i)),
                     Append(log, Logged(i, item, step)))
    ELSE IF ctx.continueOnFail
    THEN ExecuteLoop(ctx, i + 1, returnData, Append(log, Logged(i, item, step)))
    ELSE Frame(ctx, "threw", i, NoItem, returnData,
               Append(log, Logged(i, item, step)), Error(step.outcome.message))

\* the end of iteration i, step being what its try block did: push and go
\* on, or in the catch push the error under continueOnFail and rethrow
\* without it
AfterItem(ctx, i, returnData, log, item, step) ==
    IF step.outcome.kind = "ok"
    THEN ExecuteLoop(ctx, i + 1, Append(returnData, Output(step.outcome, i)),
                     Append(log, Logged(i, item, step)))
    ELSE IF ctx.continueOnFail
    THEN ExecuteLoop(ctx, i + 1,
                     Append(returnData, ErrorOutput(step.outcome.message, i)),
                     Append(log, Logged(i, item, step)))
    ELSE Frame(ctx, "threw", i, NoItem, returnData,
               Append(log, Logged(i, item, step)), Error(step.outcome.message))

\* for (let i = 0; i < items.length; i++) { try { ... } catch (error) { ... } }
\* from item i up to the next await, the return or the throw
ExecuteLoop(ctx, i, returnData, log) ==
    IF i > Len(ctx.items)
    THEN Frame(ctx, "returned", i, NoItem, returnData, log, Ok(returnData))
    ELSE IF Awaits(ctx.items[i])
    THEN Frame(ctx, "awaiting", i, ctx.items[i], returnData, log, NoResult)
    ELSE AfterItem(ctx, i, returnData, log, ctx.items[i], ExecuteItem(ctx.items[i]))

\* the call from its start to its first await, return or throw
execute(items, continueOnFail) ==
    ExecuteLoop(Context(items, continueOnFail, 0), 1, <<>>, <<>>)

\* the call from the settling of the httpRequest it waits for to its next
\* await, return or throw
resume(frame) ==
    AfterItem(frame.ctx, frame.i, frame.returnData, frame.log, frame.pending,
              ExecuteItem(frame.pending))

\* the items of the input pool
Full == {"persons", "families", "meta"}

\* the operation of a traversal item, what its json has, and its rootId
TraversalShapes ==
    {<<"ancestors", Full, <<>>>>, <<"ancestors", Full, <<"I", "3">>>>,
     <<"ancestors", {"families", "meta"}, <<"I", "3">>>>,
     <<"descendants", Full, <<>>>>, <<"descendants", Full, <<"I", "3">>>>,
     <<"descendants", Full, <<"I", "9">>>>,
     <<"descendants", {"persons", "meta"}, <<"I", "3">>>>,
     <<"descendants", {"persons", "families"}, <<>>>>}

\* with them, the input item {} of the unit tests of the ancestors operation
TraversalItems ==
    {[operation |-> shape[1], json |-> Json(shape[2], ExampleParseResult),
      rootId |-> shape[3], maxGenerations |-> 2] : shape \in TraversalShapes}
    \cup {[operation |-> "ancestors", json |-> Absent, rootId |-> <<>>,
            maxGenerations |-> 3]}

Acquired ==
    [binary |->
        {ThrowMessage(<<"no binary data">>)}
        \cup {[kind |-> "ok", body |-> BufferOf(bytes)] : bytes \in {<<>>, <<48>>}},
     url |->
        {ThrowMessage(<<"connect ECONNREFUSED">>),
         [kind |-> "ok", statusCode |-> "404", body |-> NoBuffer]}
        \cup {[kind |-> "ok", statusCode |-> "200", body |-> body] :
                body \in {NoBuffer, BufferOf(<<48>>)}}]

WellFormedTree ==
    Ok(Tree(<<Node("INDI", I1, Undef, Undef,
                   <<Leaf("NAME", Undef, <<"J", " ", "/", "D", "/">>)>>)>>))

\* parse items: every way of getting or not getting a buffer, with a tree
\* the primary normalizer accepts, and one file neither parser accepts
ParseItems ==
    {[operation |-> "parse", json |-> Json({}, EmptyParseResult), source |-> source,
      acquired |-> acquired, parseGedcom |-> WellFormedTree,
      readGedcom |-> Throw(<<"read-gedcom: bad header">>, NoLists)] :
        source \in {"binary"}, acquired \in Acquired.binary}
    \cup
    {[operation |-> "parse", json |-> Json({}, EmptyParseResult), source |-> source,
      acquired |-> acquired, parseGedcom |-> WellFormedTree,
      readGedcom |-> Throw(<<"read-gedcom: bad header">>, NoLists)] :
        source \in {"url"}, acquired \in Acquired.url}
    \cup
    {[operation |-> "parse", json |-> Json({}, EmptyParseResult), source |-> "binary",
      acquired |-> [kind |-> "ok", body |-> BufferOf(<<48>>)],
      parseGedcom |-> Ok([shape |-> "null"]),
      readGedcom |-> Throw(<<"read-gedcom: bad header">>, NoLists)]}

\* a ParseResult with a name outside ASCII, dates, and a family without wife
NamedParseResult ==
    ParseResult(<<[ParsedPerson(I1, <<"J", "é", " ", "D">>, <<>>, <<F1>>)
                      EXCEPT !.birthDate = <<"1", "9">>],
                  [ParsedPerson(I2, <<>>, <<F1>>, <<>>)
                      EXCEPT !.deathDate = <<"2", "0">>]>>,
                <<ParsedFamily(F1, I1, Undef, <<I2>>)>>, Utf8Tag)

Now == <<"2", "0", "2", "6", "-", "1", "0", "-", "3", "1", "T",
         "0", "8", ":", "0", "0", ":", "0", "0", ".", "0", "0", "0", "Z">>

GenerateItems ==
    {[operation |-> "generate", json |-> Json(has, NamedParseResult),
      outputFormat |-> outputFormat, binaryPropertyName |-> "data",
      filename |-> <<"f", ".", "g", "e", "d">>, now |-> Now] :
        has \in {Full}, outputFormat \in {"text", "binary"}}
    \cup
    {[operation |-> "generate", json |-> Json({"persons", "meta"}, NamedParseResult),
      outputFormat |-> "text", binaryPropertyName |-> "data",
      filename |-> <<"f", ".", "g", "e", "d">>, now |-> Now]}

\* the search type, includeFullData and the two filters of a find item
Searches ==
    {<<"individual", "all", [key \in {"name"} |-> <<"D">>], NoFilter>>,
     <<"individual", "results", [key \in {"birthDate", "fams"} |-> <<"1">>], NoFilter>>,
     <<"family", "results", NoFilter, [key \in {"wife"} |-> <<"I">>]>>,
     <<"all", "all", NoFilter, [key \in {"children"} |-> <<"2">>]>>,
     <<"person", "results", NoFilter, NoFilter>>}

FindItems ==
    {[operation |-> "find", json |-> Json(Full, NamedParseResult),
      searchType |-> search[1], includeFullData |-> search[2],
      individualFilters |-> search[3], familyFilters |-> search[4]] :
        search \in Searches}
    \cup
    {[operation |-> "find", json |-> Json({"persons", "families"}, NamedParseResult),
      searchType |-> "all", includeFullData |-> "results",
      individualFilters |-> NoFilter, familyFilters |-> NoFilter]}

OtherItems == {[operation |-> "merge", json |-> Json({}, EmptyParseResult)]}

Items == TraversalItems \cup ParseItems \cup GenerateItems \cup FindItems \cup OtherItems

RECURSIVE ItemLists(_)
ItemLists(n) ==
    IF n = 0 THEN {<<>>}
    ELSE {<<item>> \o rest : item \in Items, rest \in ItemLists(n - 1)}

\* what other code leaves at an index while a call waits: another
\* operation, on an input without meta
Replacements ==
    {[operation |-> "descendants",
      json |-> Json({"persons", "families"}, ExampleParseResult),
      rootId |-> <<"I", "3">>, maxGenerations |-> 2]}

InitNode ==
    /\ pr = EmptyParseResult
    /\ call = Idle
    /\ out = NoResult
    /\ calls = <<>>
    /\ visitedPersons = <<>>
    /\ frames = <<>>

\* the items of all calls so far
ItemCount == Sum([f \in DOMAIN frames |-> Len(frames[f].ctx.items)])

\* a call of execute, up to its first await, its return or its throw, made
\* while every earlier call waits; continueOnFail is a setting of the node,
\* the same for all its calls
Execute(items, continueOnFail) ==
    /\ \A f \in DOMAIN frames :
          /\ frames[f].status = "awaiting"
          /\ frames[f].ctx.continueOnFail = continueOnFail
    /\ \E frame \in {execute(items, continueOnFail)} :
          frames' = Append(frames, frame)
    /\ UNCHANGED <<pr, call, out, calls, visitedPersons>>

\* the httpRequest a call waits for settles, and the call goes on to its
\* next await, its return or its throw
HttpRequestSettles(f) ==
    /\ frames[f].status = "awaiting"
    /\ \E frame \in {resume(frames[f])} :
          frames' = [frames EXCEPT ![f] = frame]
    /\ UNCHANGED <<pr, call, out, calls, visitedPersons>>

\* while a call waits, other code changes the json or the parameters at the
\* index it waits for or at a later one
Callback(f, k, item) ==
    /\ frames[f].status = "awaiting"
    /\ frames[f].ctx.changes < MaxCallbacks
    /\ k \in frames[f].i..Len(frames[f].ctx.items)
    /\ frames[f].ctx.items[k] # item
    /\ frames' = [frames EXCEPT ![f].ctx.items[k] = item,
                                ![f].ctx.changes = @ + 1]
    /\ UNCHANGED <<pr, call, out, calls, visitedPersons>>

NextNode ==
    \/ /\ Len(frames) < MaxCalls
       /\ \A f \in DOMAIN frames : frames[f].status = "awaiting"
       /\ \E n \in 0..(MaxItems - ItemCount) :
             \E items \in ItemLists(n), continueOnFail \in BOOLEAN :
                Execute(items, continueOnFail)
    \/ \E f \in DOMAIN frames : HttpRequestSettles(f)
    \/ \E f \in DOMAIN frames :
          \E k \in 1..MaxItems, item \in Replacements : Callback(f, k, item)

SpecNode == InitNode /\ [][NextNode]_vars

\* the iteration failed before any call of the core, with this message
RejectedWith(entry, message) ==
    /\ entry.core = <<>>
    /\ entry.outcome.kind = "throw"
    /\ entry.outcome.message = message

IsTraversalItem(item) == item.operation \in {"ancestors", "descendants"}

\* the item has a json, and the json is without one of the three properties
LacksProperty(item) ==
    /\ item.json # Absent
    /\ \E property \in {"persons", "families", "meta"} : property \notin item.json.has

\* the input item is lacking persons, families or meta
LacksInput(item) == item.json = Absent \/ LacksProperty(item)

\* the binary property was read or the download answered, and a buffer was
\* expected of it
Answered(item) == item.operation = "parse" /\ item.acquired.kind = "ok"

\* the binary property was read, or the download answered 200
Downloaded(item) ==
    /\ Answered(item)
    /\ item.source = "url" => item.acquired.statusCode = "200"

\* the entry's call of the core, if it made one, is the only one and got
\* what the item holds
CoreGotItem(entry) ==
    LET item == entry.read IN
    /\ (entry.core # <<>> /\ IsTraversalItem(item)) =>
          /\ Len(entry.core) = 1
          /\ ~LacksInput(item)
          /\ item.rootId # <<>>
          /\ entry.core[1].arg =
                [parseResult |-> item.json.data,
                 rootId |-> item.rootId,
                 maxGenerations |-> item.maxGenerations]
    /\ (entry.core # <<>> /\ item.operation = "parse") =>
          /\ Len(entry.core) = 1
          /\ Downloaded(item)
          /\ item.acquired.body = BufferOf(entry.core[1].arg)
          /\ entry.core[1].arg # <<>>

\* the error of entry k is what the call throws, or records under
\* continueOnFail
ErrorReported(f, k) ==
    frames[f].log[k].outcome.kind = "throw" =>
        IF frames[f].ctx.continueOnFail
        THEN frames[f].returnData[k] = ErrorOutput(frames[f].log[k].outcome.message, k)
        ELSE /\ k = Len(frames[f].log)
             /\ frames[f].status = "threw"
             /\ frames[f].out = Error(frames[f].log[k].outcome.message)

Fails(entry) == ExecuteItem(entry.read).outcome.kind = "throw"

\* the output of the item an iteration read
OutputOf(entry) ==
    IF Fails(entry) THEN ErrorOutput(ExecuteItem(entry.read).outcome.message, entry.item)
    ELSE Output(ExecuteItem(entry.read).outcome, entry.item)

\* C23: in every call of execute the iterations are those of the items in
\* index order, one each, up to the item the call waits for, and each is
\* what the switch does for the item it read, which is the input item when
\* no other code changed the input; if continueOnFail is false the first
\* failing item ends the call with that item's error, no output is returned
\* and no later item is processed; otherwise the call returns one output per
\* input item, in input order, with pairedItem.item the input index and
\* {error: message} for an item that failed.
C23_OneOutputPerItemInOrder ==
    \A f \in DOMAIN frames :
        LET frame == frames[f]
            log == frame.log
        IN  /\ \A k \in DOMAIN log :
                  /\ log[k].item = k
                  /\ log[k].outcome = ExecuteItem(log[k].read).outcome
                  /\ frame.ctx.changes = 0 => log[k].read = frame.ctx.items[k]
                  /\ (Fails(log[k]) /\ ~frame.ctx.continueOnFail) =>
                        /\ k = Len(log)
                        /\ frame.status = "threw"
            /\ Len(log) <= Len(frame.ctx.items)
            /\ frame.status = "awaiting" =>
                  /\ Len(log) = frame.i - 1
                  /\ Awaits(frame.pending)
                  /\ frame.ctx.changes = 0 => frame.pending = frame.ctx.items[frame.i]
                  /\ frame.out = NoResult
            /\ frame.status = "threw" =>
                  /\ ~frame.ctx.continueOnFail
                  /\ log # <<>>
                  /\ Fails(log[Len(log)])
                  /\ frame.out = Error(log[Len(log)].outcome.message)
            /\ frame.status = "returned" =>
                  /\ Len(log) = Len(frame.ctx.items)
                  /\ frame.out = Ok(frame.returnData)
                  /\ Len(frame.returnData) = Len(frame.ctx.items)
                  /\ \A k \in DOMAIN log :
                        /\ frame.returnData[k] = OutputOf(log[k])
                        /\ frame.returnData[k].pairedItem = [item |-> k - 1]

\* under continueOnFail a download that answers 404 is followed by a second
\* item that succeeds
C23_Witness ==
    \E f \in DOMAIN frames :
        /\ frames[f].status = "returned"
        /\ frames[f].ctx.continueOnFail
        /\ Len(frames[f].ctx.items) = 2
        /\ frames[f].log[1].read.operation = "parse"
        /\ frames[f].log[1].read.source = "url"
        /\ frames[f].out.value[1] =
              [json |-> [error |-> <<"Failed to download GEDCOM file from URL: ", "404">>],
               pairedItem |-> [item |-> 0]]
        /\ ~Fails(frames[f].log[2])
        /\ frames[f].out.value[2].pairedItem = [item |-> 1]
        /\ frames[f].out.value[2].json = frames[f].log[2].outcome.value

-----------------------------------------------------------------------------
(* Both traversals on ParseResults whose links are recorded on both sides:  *)
(* three persons and two families, every person being the root of a call.   *)
(* The person ids are in pointer form, or one of them is the empty string   *)
(* or lacks the '@' signs, as a normalizer may leave it.                    *)

IdSchemes == {<<I1, I2, I3>>, <<<<>>, I2, I3>>, <<<<"I", "1">>, I2, I3>>}

\* husband[f] and wife[f] are person indexes, 0 for an unset spouse;
\* children[f] is a set of person indexes.  famc and fams are read off the
\* families, except that shape "one-sided" leaves the third person's famc
\* empty.
DualInput(ids, husband, wife, children, shape) ==
    LET spouse(f, role) == IF role[f] = 0 THEN Undef ELSE ids[role[f]]
        childIds(f) ==
            LET index == <<1, 2, 3>>
                child(p) == p \in children[f]
                kept == SelectSeq(index, child)
            IN  [k \in DOMAIN kept |-> ids[kept[k]]]
        famc(p) ==
            LET asChild(fid) == \E f \in 1..2 : FamilyIds[f] = fid /\ p \in children[f]
            IN  IF shape = "one-sided" /\ p = 3 THEN <<>>
                ELSE SelectSeq(FamilyIds, asChild)
        fams(p) ==
            LET asSpouse(fid) ==
                    \E f \in 1..2 : FamilyIds[f] = fid /\ p \in {husband[f], wife[f]}
            IN  SelectSeq(FamilyIds, asSpouse)
        person(p) == ParsedPerson(ids[p], <<"P">>, famc(p), fams(p))
        family(f) == ParsedFamily(FamilyIds[f], spouse(f, husband), spouse(f, wife),
                                  childIds(f))
    IN  ParseResult(<<person(1), person(2), person(3)>>, <<family(1), family(2)>>,
                    <<"U", "T", "F", "-", "8">>)

DualInputs ==
    {DualInput(ids, <<h1, h2>>, <<w1, w2>>, <<c1, c2>>, shape) :
        ids \in IdSchemes,
        h1 \in {0, 1, 2}, h2 \in {0, 3},
        w1 \in {0, 2, 3}, w2 \in {0, 2},
        c1 \in SUBSET {1, 2, 3}, c2 \in {{}, {1}, {1, 2}},
        shape \in {"two-sided", "one-sided"}}

InitDual ==
    /\ pr \in DualInputs
    /\ call = Idle
    /\ out = NoResult
    /\ calls = <<>>
    /\ visitedPersons = <<>>
    /\ frames = <<>>

\* one call on the ParseResult, its root being the id of one of the persons
NextDual ==
    \/ /\ call = Idle
       /\ \E i \in DOMAIN pr.persons, n \in 1..MaxGen :
             ComputeAncestors(pr.persons[i].id, n)
    \/ /\ call = Idle
       /\ \E i \in DOMAIN pr.persons, n \in 1..MaxGen :
             ComputeDescendants(pr.persons[i].id, n)

SpecDual == InitDual /\ [][NextDual]_vars

UniqueIds == NoDuplicates(Ids(pr.persons)) /\ NoDuplicates(Ids(pr.families))

\* every family reference names a family, every set spouse and every child
\* names a person
ReferencesResolve ==
    /\ \A i \in DOMAIN pr.persons :
          \A fid \in Range(pr.persons[i].famc) \cup Range(pr.persons[i].fams) :
              MapHas(pr.families, fid)
    /\ \A i \in DOMAIN pr.families :
          /\ \A id \in {pr.families[i].husband, pr.families[i].wife} \ {Undef} :
                MapHas(pr.persons, id)
          /\ \A id \in Range(pr.families[i].children) : MapHas(pr.persons, id)

\* f is in c.famc iff c is in f.children; f is in p.fams iff p is f.husband
\* or f.wife
LinksAgree ==
    \A i \in DOMAIN pr.persons, j \in DOMAIN pr.families :
        LET p == pr.persons[i]
            f == pr.families[j]
        IN  /\ Contains(p.famc, f.id) <=> Contains(f.children, p.id)
            /\ Contains(p.fams, f.id) <=> p.id \in {f.husband, f.wife}

ConsistentData == UniqueIds /\ ReferencesResolve /\ LinksAgree

\* id is in generation k - 1 of the result o; a call that failed has no
\* generations
InGeneration(o, k, id) ==
    /\ o.kind = "ok"
    /\ k \in DOMAIN o.value.generations
    /\ Contains(o.value.generations[k], id)

\* the traversal in the other direction from rootId, with the same limit
OtherDirection(rootId) ==
    Outcome(Traverse(IF call.op = "computeAncestors"
                     THEN "computeDescendants" ELSE "computeAncestors",
                     pr, rootId, call.maxGenerations))

\* the person the call started from is in generation k of the other
\* direction's result from a person exactly when that person is in
\* generation k of the call's result
DualGenerations ==
    \A i \in DOMAIN pr.persons, k \in 1..MaxGen :
        InGeneration(out, k, pr.persons[i].id)
            <=> InGeneration(OtherDirection(pr.persons[i].id), k, call.rootId)

\* C22 as stated: on a ParseResult with unique ids in which every reference
\* resolves and links agree in both directions, for all persons a and c and
\* every N >= 1, a is in generation k of computeAncestors(c, N) if and only
\* if c is in generation k of computeDescendants(a, N).
C22_DualOnConsistentData ==
    (IsTraversal /\ call.maxGenerations >= 1 /\ ConsistentData) => DualGenerations

\* C22 amended: as stated, for a ParseResult whose person ids all start and
\* end with '@'.
C22_DualOnPointerIds ==
    (IsTraversal /\ call.maxGenerations >= 1 /\ ConsistentData
     /\ \A i \in DOMAIN pr.persons : IsPointerForm(pr.persons[i].id)) => DualGenerations

\* a grandparent: two links up from the root of an ancestors call, and the
\* root two links down from it
C22_Witness ==
    /\ Returned
    /\ call.op = "computeAncestors"
    /\ call.maxGenerations = 3
    /\ ConsistentData
    /\ \A i \in DOMAIN pr.persons : IsPointerForm(pr.persons[i].id)
    /\ Len(out.value.generations) = 3
    /\ \E i \in DOMAIN pr.persons :
          /\ InGeneration(out, 3, pr.persons[i].id)
          /\ InGeneration(OtherDirection(pr.persons[i].id), 3, call.rootId)

====
